---- MODULE Spec2Model ----
(***************************************************************************)
(* GhostCoder: Syntax Repair (syntaxFixer.js, kept in src/src/             *)
(* ghost_engine.js), the Symbol Extractor and Graph Assembler              *)
(* (symbolGraph.js), context compaction (contextRetriever.js) and the      *)
(* index lifecycle of runGhostCoder (ghost_engine.js).                     *)
(*                                                                         *)
(* Source text is a sequence of chunks.  A chunk is one punctuation or     *)
(* white-space character, one whole word (a maximal run of \w             *)
(* characters), or the body of one string literal.  The words of the vocabulary are chosen so that none       *)
(* contains a keyword of a pattern as a proper part; a literal of a        *)
(* regular expression therefore matches a word chunk exactly when it       *)
(* equals it, and the regular expressions of the source are evaluated      *)
(* chunk by chunk with the source's greedy, backtracking, leftmost-first   *)
(* semantics.                                                              *)
(***************************************************************************)
EXTENDS Integers, Sequences, FiniteSets, TLC

VARIABLES
    \* ---- Syntax Repair ----
    rpc,        \* "input" | "once" | "twice": how often repair has run
    content,    \* the content handed to the first repair
    filePath,   \* extension of the file path handed to smartFix
    res1,       \* result of smartFix(content, filePath)
    res2,       \* result of smartFix(res1.content, filePath)
    \* ---- buildSymbolGraph ----
    gpc,        \* "off" | "scan" | "semantic" | "analyze" | "done"
    codeFiles,  \* the files handed to buildSymbolGraph (phase 1 rewrites content)
    allRepoFiles,   \* the files semanticFix looks for imports in
    aliased,    \* allRepoFiles is the codeFiles array itself
    idx,        \* position of the loop of the current phase in codeFiles
    semanticFixResults, \* Map file.path -> result of semanticFix
    parse,      \* parseJavaScript / parseTypeScript of the current file
    graph,      \* the graph under construction
    reported,   \* every fix either repair stage returned with shouldCommit
    returned,   \* what buildSymbolGraph returned
    \* ---- createCompactContext ----
    cpc,        \* "off" | "input" | "done"
    context,    \* the bundle handed to createCompactContext (the live object)
    maxTokens,  \* the budget handed to createCompactContext
    estimated,  \* estimateTokens(formatContextForAI(context)) of the call
    compactContext, \* what createCompactContext returned
    \* ---- runGhostCoder ----
    rupc,       \* "off" | "idle" | "scan" | "graph" | "index" | "context" |
                \* "deliver" | "ended"
    runs,       \* number of the current run; the clock of Date.now()
    repoId,     \* `${owner}/${repo}` of the current run
    tempRepoPath,       \* the clone of the current run exists on disk
    syntaxFixesBranch,  \* the run committed syntax fixes to a branch
    embeddingIndex,     \* the index the current run loaded or built
    improvements,       \* analysis.improvements is not empty
    status,     \* status of the returned summary, "error" for a throw
    indexDir,   \* INDEX_DIR: file name -> stored index
    \* ---- cosineSimilarity ----
    copc,       \* "off" | "input" | "done"
    cvec1,      \* the first vector handed to cosineSimilarity
    cvec2,      \* the second vector handed to cosineSimilarity
    cosine,     \* what cosineSimilarity returned or threw
    \* ---- semanticSearch ----
    sepc,       \* "off" | "input" | "done"
    searchIndex,        \* the index handed to semanticSearch
    queryEmbedding,     \* generateEmbedding(query): [value |-> a vector] or
                        \* the error it threw
    topK,       \* the number of results asked for
    topResults, \* [value |-> what semanticSearch returned] or the error
                \* it threw
    \* ---- the index store ----
    stpc,       \* "off" | "ready"
    storeDir,   \* INDEX_DIR: file name -> stored index
    storeBefore,        \* INDEX_DIR before the last call
    storeCall,  \* the last call: [op, repoId, outcome]
    storeCalls, \* number of calls made
    \* ---- Naming Repair on one exporting file ----
    napc,       \* "off" | "input" | "done"
    exporter,   \* the file handed to semanticFix
    importer,   \* the other file of the repository
    namingResult,       \* what semanticFix returned
    \* ---- retrieveContext ----
    rtpc,       \* "off" | "input" | "done"
    searchOutcome,      \* what semanticSearch returns or throws
    disk,       \* the clone: file path -> content, Unreadable if it cannot be read
    retrieveOptions,    \* [maxFiles, includeFullFiles]
    retrieved,  \* what retrieveContext returned or threw
    \* ---- buildEmbeddingIndex ----
    embpc,      \* "off" | "input" | "done"
    embedGraph, \* the symbol graph handed to buildEmbeddingIndex
    embedOutcome,       \* text -> what the embedding model gives for it
    embedEnv,   \* [loads, writable]: the model loads, INDEX_DIR can be written
    embedDir,   \* INDEX_DIR: file name -> stored index
    built,      \* what buildEmbeddingIndex returned or threw
    \* ---- smartFix on any content ----
    sfpc,       \* "off" | "input" | "done"
    given,      \* the content handed to smartFix: a string or undefined
    givenPath,  \* the extension of the file path handed to smartFix
    smartResult, \* what smartFix returned or threw
    \* ---- the memory store (memoryManager.js) ----
    mpc,        \* caller -> "off" | "idle" | "acquire" | "read" | "write" | "release"
    mcall,      \* caller -> the call in progress: [op, repoId, memoryObject, maxEntries]
    tries,      \* caller -> the loop counter i of acquireLock
    mstore,     \* caller -> the store its call read
    moutcome,   \* caller -> how its last call ended: "none" | "returned" | "threw"
    lockFile,   \* LOCK_FILE exists
    memoryFile, \* the store MEMORY_FILE holds: repoId -> entries
    serial,     \* the store the calls give when run one after the other, in the order of their writes
    memoryCalls, \* number of calls started
    \* the memory store used by one caller
    givenMax,   \* the maxEntries of the addToMemory calls
    kept,       \* the store: repoId -> list of entries
    addedAll,   \* per repoId, every entry added so far, in order
    adds,       \* number of addToMemory calls made
    recent,     \* the last getRecentContext call: [repoId, limit, stored, entries]
    \* extractRelevantSnippets
    snpc,           \* "input", "done"
    listing,        \* the content of the file
    matched,        \* the search records of the file
    extracted,      \* the snippets returned
    \* runGhostCoder from the symbol graph to the pull request
    dvpc,               \* "graph", "index", "deliver", ..., "ended"
    fixCount,           \* symbolGraph.syntaxFixes.length
    fixBranch,          \* syntaxFixesBranch: Null or a branch name
    branchName,         \* branchName of step 9: Null or a branch name
    suggestions,        \* analysis.improvements.length
    applicable,         \* changes.length
    branchesCreated,    \* the branches createBranch has made in the clone
    headBranch,         \* the branch checked out in the clone
    commitLog,          \* the commits made: [branch, kind]
    pushLog,            \* the pushes done: [branch, commits]
    pullRequests,       \* the pull requests opened: [branch, commits]
    runStatus           \* "none", the status returned, or "error"

repairVars == <<rpc, content, filePath, res1, res2>>

graphVars == <<gpc, codeFiles, allRepoFiles, aliased, idx, semanticFixResults,
               parse, graph, reported, returned>>

compactVars == <<cpc, context, maxTokens, estimated, compactContext>>

runVars == <<rupc, runs, repoId, tempRepoPath, syntaxFixesBranch,
             embeddingIndex, improvements, status, indexDir>>

cosineVars == <<copc, cvec1, cvec2, cosine>>

searchVars == <<sepc, searchIndex, queryEmbedding, topK, topResults>>

storeVars == <<stpc, storeDir, storeBefore, storeCall, storeCalls>>

namingVars == <<napc, exporter, importer, namingResult>>

retrieveVars == <<rtpc, searchOutcome, disk, retrieveOptions, retrieved>>

embedVars == <<embpc, embedGraph, embedOutcome, embedEnv, embedDir, built>>

smartVars == <<sfpc, given, givenPath, smartResult>>

memoryVars == <<mpc, mcall, tries, mstore, moutcome, lockFile,
                memoryFile, serial, memoryCalls>>

recentVars == <<givenMax, kept, addedAll, adds, recent>>

snippetsVars == <<snpc, listing, matched, extracted>>

deliveryVars == <<dvpc, fixCount, fixBranch, branchName, suggestions,
                  applicable, branchesCreated, headBranch, commitLog,
                  pushLog, pullRequests, runStatus>>

vars ==
    <<repairVars,
      graphVars,
      compactVars,
      runVars,
      cosineVars,
      searchVars,
      storeVars,
      namingVars,
      retrieveVars,
      embedVars,
      smartVars,
      memoryVars,
      recentVars,
      snippetsVars,
      deliveryVars>>

\* (other parts: variables)
\* for each part of the model, the variables of every other part
notRepair == <<graphVars, compactVars, runVars, cosineVars, searchVars,
    storeVars, namingVars, retrieveVars, embedVars, smartVars, memoryVars,
    recentVars, snippetsVars, deliveryVars>>

notGraph == <<repairVars, compactVars, runVars, cosineVars, searchVars,
    storeVars, namingVars, retrieveVars, embedVars, smartVars, memoryVars,
    recentVars, snippetsVars, deliveryVars>>

notCompact == <<repairVars, graphVars, runVars, cosineVars, searchVars,
    storeVars, namingVars, retrieveVars, embedVars, smartVars, memoryVars,
    recentVars, snippetsVars, deliveryVars>>

notRun == <<repairVars, graphVars, compactVars, cosineVars, searchVars,
    storeVars, namingVars, retrieveVars, embedVars, smartVars, memoryVars,
    recentVars, snippetsVars, deliveryVars>>

notCosine == <<repairVars, graphVars, compactVars, runVars, searchVars,
    storeVars, namingVars, retrieveVars, embedVars, smartVars, memoryVars,
    recentVars, snippetsVars, deliveryVars>>

notSearch == <<repairVars, graphVars, compactVars, runVars, cosineVars,
    storeVars, namingVars, retrieveVars, embedVars, smartVars, memoryVars,
    recentVars, snippetsVars, deliveryVars>>

notStore == <<repairVars, graphVars, compactVars, runVars, cosineVars,
    searchVars, namingVars, retrieveVars, embedVars, smartVars, memoryVars,
    recentVars, snippetsVars, deliveryVars>>

notNaming == <<repairVars, graphVars, compactVars, runVars, cosineVars,
    searchVars, storeVars, retrieveVars, embedVars, smartVars, memoryVars,
    recentVars, snippetsVars, deliveryVars>>

notRetrieve == <<repairVars, graphVars, compactVars, runVars, cosineVars,
    searchVars, storeVars, namingVars, embedVars, smartVars, memoryVars,
    recentVars, snippetsVars, deliveryVars>>

notEmbed == <<repairVars, graphVars, compactVars, runVars, cosineVars,
    searchVars, storeVars, namingVars, retrieveVars, smartVars, memoryVars,
    recentVars, snippetsVars, deliveryVars>>

notSmart == <<repairVars, graphVars, compactVars, runVars, cosineVars,
    searchVars, storeVars, namingVars, retrieveVars, embedVars, memoryVars,
    recentVars, snippetsVars, deliveryVars>>

notMemory == <<repairVars, graphVars, compactVars, runVars, cosineVars,
    searchVars, storeVars, namingVars, retrieveVars, embedVars, smartVars,
    recentVars, snippetsVars, deliveryVars>>

notRecent == <<repairVars, graphVars, compactVars, runVars, cosineVars,
    searchVars, storeVars, namingVars, retrieveVars, embedVars, smartVars,
    memoryVars, snippetsVars, deliveryVars>>

notSnippets == <<repairVars, graphVars, compactVars, runVars, cosineVars,
    searchVars, storeVars, namingVars, retrieveVars, embedVars, smartVars,
    memoryVars, recentVars, deliveryVars>>

notDelivery == <<repairVars, graphVars, compactVars, runVars, cosineVars,
    searchVars, storeVars, namingVars, retrieveVars, embedVars, smartVars,
    memoryVars, recentVars, snippetsVars>>
\* (end of other parts: variables)

----------------------------------------------------------------------------
(* Text helpers: String.prototype.split/join/trim/trimEnd and match counts *)

NL == "\n"
CR == "\r"
SP == " "

\* \s of the chunks in use
WhiteSpace == {SP, NL, CR}

\* the line terminators of the language: where $ matches under the m flag,
\* what . does not match, and what the parser counts lines by
LineTerminators == {NL, CR}

\* \w words of two or more characters
LongWords == {"export", "const", "let", "var", "async", "function", "import",
              "return", "throw", "break", "continue", "type", "interface",
              "helper", "doWork", "default", "class", "any"}

\* \w words of one character
ShortWords == {"a", "b", "f", "x", "1"}

\* other \w words: names of files and exports, and keywords
NameWords == {"hp", "hlp", "utils", "main", "from", "as", "def", "dk", "dowrk"}

WordChunks == LongWords \cup ShortWords \cup NameWords

\* number of characters of a chunk (2 stands for "two or more")
CharLen(t) == IF t \in LongWords \cup NameWords THEN 2 ELSE 1

RECURSIVE CharLenOf(_)
CharLenOf(s) == IF s = <<>> THEN 0 ELSE CharLen(Head(s)) + CharLenOf(Tail(s))

RECURSIVE Count(_, _)
\* (content.match(/c/g) || []).length for a one-character class
Count(s, set) ==
    IF s = <<>> THEN 0
    ELSE (IF Head(s) \in set THEN 1 ELSE 0) + Count(Tail(s), set)

RECURSIVE TrimStart(_)
TrimStart(s) ==
    IF s # <<>> /\ Head(s) \in WhiteSpace THEN TrimStart(Tail(s)) ELSE s

RECURSIVE TrimEnd(_)
TrimEnd(s) ==
    IF s # <<>> /\ s[Len(s)] \in WhiteSpace
    THEN TrimEnd(SubSeq(s, 1, Len(s) - 1)) ELSE s

Trim(s) == TrimStart(TrimEnd(s))

RECURSIVE SplitFrom(_, _, _)
\* s.split('\n'): cur is the line being collected from position p on
SplitFrom(s, p, cur) ==
    IF p > Len(s) THEN <<cur>>
    ELSE IF s[p] = NL THEN <<cur>> \o SplitFrom(s, p + 1, <<>>)
    ELSE SplitFrom(s, p + 1, Append(cur, s[p]))

Split(s) == SplitFrom(s, 1, <<>>)

RECURSIVE Join(_)
\* lines.join('\n')
Join(ls) ==
    IF Len(ls) = 0 THEN <<>>
    ELSE IF Len(ls) = 1 THEN ls[1]
    ELSE ls[1] \o <<NL>> \o Join(Tail(ls))

RECURSIVE Repeat(_, _)
\* c.repeat(n)
Repeat(c, n) == IF n <= 0 THEN <<>> ELSE <<c>> \o Repeat(c, n - 1)

StartsWith(s, pre) == Len(s) >= Len(pre) /\ SubSeq(s, 1, Len(pre)) = pre

----------------------------------------------------------------------------
(* Regular expressions over chunks.  A pattern is a sequence of elements   *)
(* [c |-> class, q |-> quantifier]; q is "1", "?", "*", "+", "*?" (lazy),  *)
(* "$" (the end-of-line assertion of the m flag) or "\\b".                  *)

El(c, q) == [c |-> c, q |-> q]

InClass(c, t) ==
    CASE c = "\\w" -> t \in WordChunks
      [] c = "\\s" -> t \in WhiteSpace
      [] c = "[^,\\n]" -> t \notin {",", NL}
      [] c = "(const|let|var)" -> t \in {"const", "let", "var"}
      [] c = "(import|export|return|throw|break|continue|type|interface)" ->
            t \in {"import", "export", "return", "throw", "break",
                   "continue", "type", "interface"}
      [] c = "[}\\]]" -> t \in {"}", "]"}
      [] c = "[^}]" -> t # "}"
      [] c = "[^)]" -> t # ")"
      [] c = "['\"]" -> t \in {"'", "\""}
      [] c = "[:=]" -> t \in {":", "="}
      [] c = "." -> t \notin LineTerminators
      [] c = "\\S" -> t \notin WhiteSpace
      [] c = "(const|let|var|class|function|interface|type)" ->
            t \in {"const", "let", "var", "class", "function", "interface",
                   "type"}
      [] OTHER -> t = c

\* $ under the m flag: at the end of the input or before a line break
AtLineEnd(s, p) ==
    p = Len(s) + 1 \/ (p <= Len(s) /\ s[p] \in LineTerminators)

\* \b after a word character: the next character is not a word character
AtWordEnd(s, p) == p = Len(s) + 1 \/ (p <= Len(s) /\ s[p] \notin WordChunks)

RECURSIVE Run(_, _, _)
\* how many chunks from position p on are of class c
Run(c, s, p) ==
    IF p <= Len(s) /\ InClass(c, s[p]) THEN 1 + Run(c, s, p + 1) ELSE 0

RECURSIVE MatchFrom(_, _, _, _)
RECURSIVE TryLen(_, _, _, _, _, _)
RECURSIVE TryLazy(_, _, _, _, _, _)
\* The match of elements k.. of re at position p: the start position of each
\* element followed by the end of the match, or <<>> when there is none.
MatchFrom(re, k, s, p) ==
    IF k > Len(re) THEN <<p>>
    ELSE IF re[k].q \in {"$", "\\b"} THEN
        IF (re[k].q = "$" /\ AtLineEnd(s, p))
           \/ (re[k].q = "\\b" /\ AtWordEnd(s, p))
        THEN LET r == MatchFrom(re, k + 1, s, p)
             IN  IF r = <<>> THEN <<>> ELSE <<p>> \o r
        ELSE <<>>
    ELSE LET run == Run(re[k].c, s, p)
             hi == IF re[k].q \in {"1", "?"} /\ run > 1 THEN 1 ELSE run
             lo == IF re[k].q \in {"1", "+"} THEN 1 ELSE 0
         IN  IF re[k].q = "*?" THEN TryLazy(re, k, s, p, 0, run)
             ELSE TryLen(re, k, s, p, hi, lo)

\* greedy: the longest repetition first, then shorter ones
TryLen(re, k, s, p, n, lo) ==
    IF n < lo THEN <<>>
    ELSE LET r == MatchFrom(re, k + 1, s, p + n)
         IN  IF r # <<>> THEN <<p>> \o r
             ELSE TryLen(re, k, s, p, n - 1, lo)

\* lazy (*?): the shortest repetition first, then longer ones
TryLazy(re, k, s, p, n, hi) ==
    IF n > hi THEN <<>>
    ELSE LET r == MatchFrom(re, k + 1, s, p + n)
         IN  IF r # <<>> THEN <<p>> \o r
             ELSE TryLazy(re, k, s, p, n + 1, hi)

RECURSIVE Search(_, _, _)
\* the leftmost match at or after position p
Search(re, s, p) ==
    IF p > Len(s) + 1 THEN <<>>
    ELSE LET m == MatchFrom(re, 1, s, p)
         IN  IF m # <<>> THEN m ELSE Search(re, s, p + 1)

\* re.test(s)
Test(re, s) == Search(re, s, 1) # <<>>

\* re.test(s) for a pattern that starts with ^
TestAnchored(re, s) == MatchFrom(re, 1, s, 1) # <<>>

\* the text matched by elements i..j of match m
Group(s, m, i, j) == SubSeq(s, m[i], m[j + 1] - 1)

----------------------------------------------------------------------------
(* Syntax Repair: attemptSyntaxFix and smartFix                            *)

\* /export\s+(const|let|var)\s+(\w+)\s*=\s*\n\s*async\s+(\w+)/g
incompleteObjectPattern ==
    << El("export", "1"), El("\\s", "+"), El("(const|let|var)", "1"),
       El("\\s", "+"), El("\\w", "+"), El("\\s", "*"), El("=", "1"),
       El("\\s", "*"), El(NL, "1"), El("\\s", "*"), El("async", "1"),
       El("\\s", "+"), El("\\w", "+") >>

\* /}\s*,?\s*\n\s*async\s+(\w+)/g
missingCommaBeforeMethod ==
    << El("}", "1"), El("\\s", "*"), El(",", "?"), El("\\s", "*"),
       El(NL, "1"), El("\\s", "*"), El("async", "1"), El("\\s", "+"),
       El("\\w", "+") >>

\* /(\w+:\s*[^,\n]+)\s*\n\s*(\w+:)/g
missingCommaPattern ==
    << El("\\w", "+"), El(":", "1"), El("\\s", "*"), El("[^,\\n]", "+"),
       El("\\s", "*"), El(NL, "1"), El("\\s", "*"), El("\\w", "+"),
       El(":", "1") >>

\* /:\s*$/gm
incompleteTypes == << El(":", "1"), El("\\s", "*"), El("", "$") >>

\* /,(\s*}\s*;?\s*)$/gm
trailingCommaObjectEnd ==
    << El(",", "1"), El("\\s", "*"), El("}", "1"), El("\\s", "*"),
       El(";", "?"), El("\\s", "*"), El("", "$") >>

\* /,(\s*[}\]])/g
trailingCommaPattern ==
    << El(",", "1"), El("\\s", "*"), El("[}\\]]", "1") >>

\* the replacement string of each String.prototype.replace call
Replacement(tag, s, m) ==
    CASE tag = "incompleteObject" ->
            \* 'export $1 $2 = {\n  async $3'
            <<"export", SP>> \o Group(s, m, 3, 3) \o <<SP>> \o Group(s, m, 5, 5)
            \o <<SP, "=", SP, "{", NL, SP, SP, "async", SP>>
            \o Group(s, m, 13, 13)
      [] tag = "commaBeforeMethod" ->
            \* '},\n  async $1'
            <<"}", ",", NL, SP, SP, "async", SP>> \o Group(s, m, 9, 9)
      [] tag = "missingComma" ->
            \* '$1,\n$2'
            Group(s, m, 1, 4) \o <<",", NL>> \o Group(s, m, 8, 9)
      [] tag = "anyType" ->
            \* ': any'
            <<":", SP, "any">>
      [] tag = "dropCommaObjectEnd" ->
            \* '$1'
            Group(s, m, 2, 6)
      [] tag = "dropComma" ->
            \* '$1'
            Group(s, m, 2, 3)

RECURSIVE ReplaceFrom(_, _, _, _)
\* s.replace(re, replacement) for a global pattern, from position p on
ReplaceFrom(re, tag, s, p) ==
    LET m == Search(re, s, p) IN
    IF m = <<>> THEN SubSeq(s, p, Len(s))
    ELSE LET from == m[1]
             to == m[Len(m)]
         IN  SubSeq(s, p, from - 1) \o Replacement(tag, s, m)
             \o (IF to > from THEN ReplaceFrom(re, tag, s, to)
                 ELSE IF from <= Len(s)
                 THEN <<s[from]>> \o ReplaceFrom(re, tag, s, from + 1)
                 ELSE <<>>)

ReplaceAll(re, tag, s) == ReplaceFrom(re, tag, s, 1)

IsJsTs(language) == language \in {"javascript", "typescript"}

\* Fix 1: incomplete object/function declarations
FixIncompleteObject(st, language) ==
    IF IsJsTs(language) /\ Test(incompleteObjectPattern, st.c)
    THEN [c |-> ReplaceAll(incompleteObjectPattern, "incompleteObject", st.c),
          w |-> TRUE,
          fixes |-> Append(st.fixes, "incomplete-object-declaration")]
    ELSE st

CommentStart == {"//", "/*", "*"}

LastOf(s) == s[Len(s)]

\* /^(const|let|var)\s+\w+\s*=\s*.+[^=,]$/ : after the first "=" at least two
\* characters follow, the last of them neither "=" nor ","
IsCompleteStatement(trimmed) ==
    LET m == MatchFrom(<< El("(const|let|var)", "1"), El("\\s", "+"),
                          El("\\w", "+"), El("\\s", "*"), El("=", "1") >>,
                       1, trimmed, 1)
    IN  /\ m # <<>>
        /\ LET rest == SubSeq(trimmed, m[Len(m)], Len(trimmed))
           IN  /\ CharLenOf(rest) >= 2
               /\ NL \notin {rest[i] : i \in 1..Len(rest)}
               /\ LastOf(rest) \notin {"=", ","}

\* /^export\s+(const|let|var)\s+\w+\s*=$/
exportAssignmentLine ==
    << El("export", "1"), El("\\s", "+"), El("(const|let|var)", "1"),
       El("\\s", "+"), El("\\w", "+"), El("\\s", "*"), El("=", "1"),
       El("", "$") >>

\* /^(import|export|return|throw|break|continue|type|interface)\s+/
needsSemicolon ==
    << El("(import|export|return|throw|break|continue|type|interface)", "1"),
       El("\\s", "+") >>

\* whether the line at index (1-based) gets a semicolon appended
NeedsSemicolonAt(lines, index) ==
    LET line == lines[index]
        trimmed == Trim(line)
        nextLine == IF index + 1 <= Len(lines) THEN Trim(lines[index + 1])
                    ELSE <<>>
    IN  /\ trimmed # <<>>
        /\ Head(trimmed) \notin CommentStart
        /\ LastOf(trimmed) \notin {";", "{", "}", "]", ")"}
        /\ LastOf(trimmed) \notin {"=", ","}
        /\ ~ TestAnchored(exportAssignmentLine, trimmed)
        /\ ~ StartsWith(nextLine, <<"async", SP>>)
        /\ ~ StartsWith(nextLine, <<"function", SP>>)
        /\ \/ TestAnchored(needsSemicolon, trimmed)
           \/ IsCompleteStatement(trimmed)
        /\ LastOf(trimmed) # ";"

\* the 1-based line numbers that get a semicolon
SemicolonLines(lines) == {i \in 1..Len(lines) : NeedsSemicolonAt(lines, i)}

RECURSIVE SemicolonFixes(_, _)
\* one 'missing-semicolon' fix per fixed line, in line order
SemicolonFixes(lines, i) ==
    IF i > Len(lines) THEN <<>>
    ELSE (IF NeedsSemicolonAt(lines, i) THEN <<"missing-semicolon">> ELSE <<>>)
         \o SemicolonFixes(lines, i + 1)

\* Fix 2: missing semicolons
FixSemicolons(st, language) ==
    IF ~ IsJsTs(language) THEN st
    ELSE LET lines == Split(st.c)
             fixedLines == [i \in 1..Len(lines) |->
                               IF NeedsSemicolonAt(lines, i)
                               THEN Append(lines[i], ";") ELSE lines[i]]
             wasFixed == st.w \/ SemicolonLines(lines) # {}
         IN  [c |-> IF wasFixed THEN Join(fixedLines) ELSE st.c,
              w |-> wasFixed,
              fixes |-> st.fixes \o SemicolonFixes(lines, 1)]

\* Fix 3: missing commas between object methods and properties
FixCommas(st, language) ==
    IF ~ IsJsTs(language) THEN st
    ELSE LET c1 == ReplaceAll(missingCommaBeforeMethod, "commaBeforeMethod", st.c)
         IN  IF Test(missingCommaPattern, c1)
             THEN [c |-> ReplaceAll(missingCommaPattern, "missingComma", c1),
                   w |-> TRUE,
                   fixes |-> Append(st.fixes, "missing-comma")]
             ELSE [st EXCEPT !.c = c1]

\* Fix 3 (TypeScript): incomplete type annotations
FixTypes(st, language) ==
    IF language = "typescript" /\ Test(incompleteTypes, st.c)
    THEN [c |-> ReplaceAll(incompleteTypes, "anyType", st.c),
          w |-> TRUE,
          fixes |-> Append(st.fixes, "incomplete-type")]
    ELSE st

\* Fix 5: object literal ending with a trailing comma
FixObjectEnd(st) ==
    [st EXCEPT !.c = ReplaceAll(trailingCommaObjectEnd, "dropCommaObjectEnd", st.c)]

\* Fix 6: balance braces
BalanceBraces(st) ==
    LET openBraces == Count(st.c, {"{"})
        closeBraces == Count(st.c, {"}"})
        split == Split(Trim(st.c))
        lastNonEmptyLine == split[Len(split)]
    IN  IF openBraces > closeBraces
        THEN [c |-> IF lastNonEmptyLine # <<>>
                       /\ Trim(lastNonEmptyLine) \in {<<"}">>, <<"}", ",">>}
                    THEN TrimEnd(st.c) \o <<NL, "}", ";">>
                    ELSE st.c \o <<NL>> \o Repeat("}", openBraces - closeBraces),
              w |-> TRUE,
              fixes |-> Append(st.fixes, "missing-closing-brace")]
        ELSE st

\* Fix 6: balance parentheses; the counts are those taken before the braces
\* were appended, which changes neither
BalanceParens(st, openParens, closeParens) ==
    IF openParens > closeParens
    THEN [c |-> st.c \o Repeat(")", openParens - closeParens),
          w |-> TRUE,
          fixes |-> Append(st.fixes, "missing-closing-paren")]
    ELSE st

\* Fix 6: balance square brackets
BalanceBrackets(st, openBrackets, closeBrackets) ==
    IF openBrackets > closeBrackets
    THEN [c |-> st.c \o Repeat("]", openBrackets - closeBrackets),
          w |-> TRUE,
          fixes |-> Append(st.fixes, "missing-closing-bracket")]
    ELSE st

\* Fix 5: remove trailing commas before } or ]
FixTrailingCommas(st) ==
    [st EXCEPT !.c = ReplaceAll(trailingCommaPattern, "dropComma", st.c)]

\* the bracket counts are taken once, before the braces are closed
Balance(st) ==
    BalanceBrackets(
      BalanceParens(BalanceBraces(st), Count(st.c, {"("}), Count(st.c, {")"})),
      Count(st.c, {"["}), Count(st.c, {"]"}))

\* result.fixed, result.content, result.shouldCommit (lines 730-732)
FixResult(st) ==
    [fixed |-> st.w, content |-> st.c, errors |-> <<>>, fixes |-> st.fixes,
     shouldCommit |-> st.w]

\* attemptSyntaxFix(content, filePath, language)
attemptSyntaxFix(c, language) ==
    FixResult(
      FixTrailingCommas(
        Balance(
          FixObjectEnd(
            FixTypes(
              FixCommas(
                FixSemicolons(
                  FixIncompleteObject([c |-> c, w |-> FALSE, fixes |-> <<>>],
                                      language),
                  language),
                language),
              language)))))

\* smartFix(content, filePath, parseError): the language follows the extension
smartFix(c, ext) ==
    attemptSyntaxFix(c, IF ext \in {".ts", ".tsx"} THEN "typescript"
                        ELSE "javascript")

----------------------------------------------------------------------------
(* Naming Repair: semanticFixer.js (detectExportNameTypos,                 *)
(* findImportAttempts, stringSimilarity, applySemanticFixes, semanticFix)  *)

\* the characters of the chunks that are compared character by character
Spell ==
    [ helper |-> <<"h", "e", "l", "p", "e", "r">>,
      hp |-> <<"h", "p">>,
      hlp |-> <<"h", "l", "p">>,
      utils |-> <<"u", "t", "i", "l", "s">>,
      main |-> <<"m", "a", "i", "n">>,
      scenario |-> <<"s", "c", "e", "n", "a", "r", "i", "o">>,
      broken |-> <<"b", "r", "o", "k", "e", "n">>,
      dup |-> <<"d", "u", "p">>,
      bad |-> <<"b", "a", "d">>,
      worse |-> <<"w", "o", "r", "s", "e">>,
      types |-> <<"t", "y", "p", "e", "s">>,
      lib |-> <<"l", "i", "b">>,
      cls |-> <<"c", "l", "s">>,
      doWork |-> <<"d", "o", "W", "o", "r", "k">>,
      dowrk |-> <<"d", "o", "w", "r", "k">>,
      dk |-> <<"d", "k">> ]
    @@ ("./helper" :> <<".", "/", "h", "e", "l", "p", "e", "r">>)
    @@ ("./utils" :> <<".", "/", "u", "t", "i", "l", "s">>)
    @@ ("./doWork" :> <<".", "/", "d", "o", "W", "o", "r", "k">>)
    @@ (".js" :> <<".", "j", "s">>)
    @@ (".ts" :> <<".", "t", "s">>)
    @@ (".py" :> <<".", "p", "y">>)
    @@ (".go" :> <<".", "g", "o">>)

Chars(chunk) == IF chunk \in DOMAIN Spell THEN Spell[chunk] ELSE <<chunk>>

RECURSIVE CharsOf(_)
\* the characters of a text
CharsOf(s) == IF s = <<>> THEN <<>> ELSE Chars(Head(s)) \o CharsOf(Tail(s))

\* String.prototype.toLowerCase, one character
LowerChar(ch) ==
    CASE ch = "W" -> "w" [] ch = "P" -> "p" [] ch = "D" -> "d"
      [] ch = "F" -> "f" [] ch = "S" -> "s" [] OTHER -> ch

ToLowerCase(cs) == [i \in 1..Len(cs) |-> LowerChar(cs[i])]

\* haystack.includes(needle), on characters
Includes(hay, needle) ==
    \E i \in 1..(Len(hay) - Len(needle) + 1) :
        SubSeq(hay, i, i + Len(needle) - 1) = needle

Min3(a, b, c) == IF a <= b /\ a <= c THEN a ELSE IF b <= c THEN b ELSE c

RECURSIVE LevRow(_, _, _, _, _)
\* row matrix[j] from row matrix[j - 1] (prev); rows are 1-based sequences
\* holding columns 0..Len(s1); acc holds the columns computed so far
LevRow(prev, s1, ch, j, acc) ==
    LET i == Len(acc) IN
    IF i > Len(s1) THEN acc
    ELSE LET cost == IF s1[i] = ch THEN 0 ELSE 1
         IN  LevRow(prev, s1, ch, j,
                    Append(acc, Min3(acc[i] + 1, prev[i + 1] + 1, prev[i] + cost)))

RECURSIVE LevRows(_, _, _, _)
LevRows(prev, s1, s2, j) ==
    IF j > Len(s2) THEN prev
    ELSE LevRows(LevRow(prev, s1, s2[j], j, <<j>>), s1, s2, j + 1)

\* matrix[s2.length][s1.length]
Levenshtein(s1, s2) ==
    LevRows([i \in 1..(Len(s1) + 1) |-> i - 1], s1, s2, 1)[Len(s1) + 1]

MaxOf(a, b) == IF a >= b THEN a ELSE b

\* stringSimilarity(str1, str2) = 1 - distance / maxLen, kept as the pair
\* <<distance, maxLen>>; equal strings give <<0, 1>> (similarity 1.0)
stringSimilarity(str1, str2) ==
    LET s1 == ToLowerCase(str1)
        s2 == ToLowerCase(str2)
    IN  IF s1 = s2 THEN <<0, 1>>
        ELSE <<Levenshtein(s1, s2), MaxOf(Len(s1), Len(s2))>>

\* similarity <= 0.5
SimAtMostHalf(sim) == 2 * sim[1] >= sim[2]

\* similarity < 0.5
SimBelowHalf(sim) == 2 * sim[1] > sim[2]

\* similarity > 0.7
SimAbove07(sim) == 10 * sim[1] < 3 * sim[2]

\* /export\s+(?:const|let|var|class|function|interface|type)\s+(\w+)/g
exportPattern ==
    << El("export", "1"), El("\\s", "+"),
       El("(const|let|var|class|function|interface|type)", "1"),
       El("\\s", "+"), El("\\w", "+") >>

\* /import\s+(?:{([^}]+)}|\*\s+as\s+(\w+)|(\w+))\s+from\s+['"](.*?)['"]/g,
\* one pattern for each alternative, in the alternatives' order;
\* names and path give the elements of the imported names and of the path
importAlternatives ==
    << [re |-> << El("import", "1"), El("\\s", "+"), El("{", "1"),
                  El("[^}]", "+"), El("}", "1"), El("\\s", "+"),
                  El("from", "1"), El("\\s", "+"), El("['\"]", "1"),
                  El(".", "*?"), El("['\"]", "1") >>,
        names |-> 4, path |-> 10],
       [re |-> << El("import", "1"), El("\\s", "+"), El("*", "1"),
                  El("\\s", "+"), El("as", "1"), El("\\s", "+"),
                  El("\\w", "+"), El("\\s", "+"), El("from", "1"),
                  El("\\s", "+"), El("['\"]", "1"), El(".", "*?"),
                  El("['\"]", "1") >>,
        names |-> 7, path |-> 12],
       [re |-> << El("import", "1"), El("\\s", "+"), El("\\w", "+"),
                  El("\\s", "+"), El("from", "1"), El("\\s", "+"),
                  El("['\"]", "1"), El(".", "*?"), El("['\"]", "1") >>,
        names |-> 3, path |-> 8] >>

RECURSIVE SplitOn(_, _, _, _)
\* s.split(sep) for a one-chunk separator
SplitOn(s, sep, p, cur) ==
    IF p > Len(s) THEN <<cur>>
    ELSE IF s[p] = sep THEN <<cur>> \o SplitOn(s, sep, p + 1, <<>>)
    ELSE SplitOn(s, sep, p + 1, Append(cur, s[p]))

RECURSIVE BeforeAs(_, _)
\* n.split(' as ')[0]
BeforeAs(s, p) ==
    IF p + 2 > Len(s) THEN s
    ELSE IF SubSeq(s, p, p + 2) = <<SP, "as", SP>> THEN SubSeq(s, 1, p - 1)
    ELSE BeforeAs(s, p + 1)

\* importedNamesStr.split(',').map(n => n.trim().split(' as ')[0].trim())
ImportedNames(str) ==
    IF str = <<>> THEN <<>>
    ELSE LET parts == SplitOn(str, ",", 1, <<>>)
         IN  [i \in 1..Len(parts) |-> Trim(BeforeAs(Trim(parts[i]), 1))]

\* the first alternative (from alternative a on) that matches at position p
RECURSIVE ImportMatchAt(_, _, _)
ImportMatchAt(s, p, a) ==
    IF a > Len(importAlternatives) THEN [m |-> <<>>, a |-> 0]
    ELSE LET m == MatchFrom(importAlternatives[a].re, 1, s, p)
         IN  IF m # <<>> THEN [m |-> m, a |-> a]
             ELSE ImportMatchAt(s, p, a + 1)

RECURSIVE ImportsOf(_, _, _, _, _)
\* the importPattern.exec loop over one file's content
ImportsOf(file, s, p, targetFileName, targetBase) ==
    IF p > Len(s) THEN <<>>
    ELSE LET r == ImportMatchAt(s, p, 1) IN
         IF r.m = <<>> THEN ImportsOf(file, s, p + 1, targetFileName, targetBase)
         ELSE LET alt == importAlternatives[r.a]
                  importedNamesStr == Group(s, r.m, alt.names, alt.names)
                  importPath == CharsOf(Group(s, r.m, alt.path, alt.path))
                  isTargetFile == \/ Includes(importPath, targetFileName)
                                  \/ Includes(importPath, targetBase)
              IN  (IF isTargetFile
                   THEN << [filePath |-> file.path,
                            importedNames |-> ImportedNames(importedNamesStr)] >>
                   ELSE <<>>)
                  \o ImportsOf(file, s, r.m[Len(r.m)], targetFileName, targetBase)

\* path.basename(filePath, path.extname(filePath)) and path.basename(filePath)
BaseNoExt(path) == CharsOf(<<path.base>>)
BaseName(path) == CharsOf(<<path.base, path.ext>>)

RECURSIVE findImportAttempts(_, _, _)
\* findImportAttempts(targetFilePath, allFiles), from file i of allFiles on
findImportAttempts(targetFilePath, allFiles, i) ==
    IF i > Len(allFiles) THEN <<>>
    ELSE (IF allFiles[i].path = targetFilePath THEN <<>>
          ELSE ImportsOf(allFiles[i], allFiles[i].content, 1,
                         BaseNoExt(targetFilePath), BaseName(targetFilePath)))
         \o findImportAttempts(targetFilePath, allFiles, i + 1)

RECURSIVE ExportsOf(_, _)
\* the exportPattern.exec loop: name and 1-based line of every export
ExportsOf(s, p) ==
    LET m == Search(exportPattern, s, p) IN
    IF m = <<>> THEN <<>>
    ELSE << [name |-> Group(s, m, 5, 5),
             line |-> Len(Split(SubSeq(s, 1, m[1] - 1)))] >>
         \o ExportsOf(s, m[Len(m)])

RECURSIVE Flatten(_)
Flatten(ss) == IF ss = <<>> THEN <<>> ELSE Head(ss) \o Flatten(Tail(ss))

\* the flags one imported name raises against one export
TyposFor(exp, importedName, path, attemptPath) ==
    LET fileName == BaseNoExt(path)
        similarity == stringSimilarity(CharsOf(exp.name), CharsOf(importedName))
        importFilenameSim == stringSimilarity(CharsOf(importedName), fileName)
        name == CharsOf(exp.name)
    IN  (IF SimBelowHalf(similarity) /\ SimAbove07(importFilenameSim)
         THEN << [line |-> exp.line, original |-> exp.name,
                  suggested |-> importedName, confidence |-> "high",
                  importedIn |-> attemptPath] >>
         ELSE <<>>)
        \o
        (IF /\ Len(name) <= 5 /\ name = ToLowerCase(name)
            /\ Len(fileName) > 5 /\ fileName # ToLowerCase(fileName)
            /\ SimAbove07(stringSimilarity(CharsOf(importedName), fileName))
         THEN << [line |-> exp.line, original |-> exp.name,
                  suggested |-> <<path.base>>, confidence |-> "medium",
                  importedIn |-> attemptPath] >>
         ELSE <<>>)

\* an order that puts medium above high
confidenceReversed == [high |-> 1, medium |-> 2, low |-> 3]

\* const confidenceOrder = { high: 3, medium: 2, low: 1 }
confidenceOrder == [high |-> 3, medium |-> 2, low |-> 1]

TypoKey(typo) == CharsOf(typo.original) \o CharsOf(typo.suggested)

RECURSIVE Dedupe(_, _)
\* the typoMap loop: one flag per key original + suggested, the first of
\* the highest confidence, in the order the keys first appear
Dedupe(typos, acc) ==
    IF typos = <<>> THEN acc
    ELSE LET typo == Head(typos)
             at == {i \in 1..Len(acc) : TypoKey(acc[i]) = TypoKey(typo)}
         IN  IF at = {} THEN Dedupe(Tail(typos), Append(acc, typo))
             ELSE LET i == CHOOSE k \in at : TRUE
                  IN  IF confidenceOrder[typo.confidence]
                            > confidenceOrder[acc[i].confidence]
                      THEN Dedupe(Tail(typos), [acc EXCEPT ![i] = typo])
                      ELSE Dedupe(Tail(typos), acc)

\* detectExportNameTypos(content, filePath, allFiles)
\* the three nested loops of detectExportNameTypos
TyposOf(exports, attempts, path) ==
    Flatten([e \in 1..Len(exports) |->
        Flatten([a \in 1..Len(attempts) |->
            Flatten([n \in 1..Len(attempts[a].importedNames) |->
                TyposFor(exports[e], attempts[a].importedNames[n],
                         path, attempts[a].filePath)])])])

DetectWith(exports, attempts, path) ==
    IF exports = <<>> THEN <<>>
    ELSE Dedupe(TyposOf(exports, attempts, path), <<>>)

detectExportNameTypos(c, path, allFiles) ==
    DetectWith(ExportsOf(c, 1), findImportAttempts(path, allFiles, 1), path)

RECURSIVE SortByLineDesc(_)
\* [...typos].sort((a, b) => b.line - a.line): stable insertion
SortByLineDesc(typos) ==
    IF typos = <<>> THEN <<>>
    ELSE LET rest == SortByLineDesc(SubSeq(typos, 1, Len(typos) - 1))
             t == typos[Len(typos)]
             k == Cardinality({i \in 1..Len(rest) : rest[i].line >= t.line})
         IN  SubSeq(rest, 1, k) \o <<t>> \o SubSeq(rest, k + 1, Len(rest))

\* new RegExp(`(export\s+(?:const|...|type)\s+)${typo.original}\b`, 'g')
TypoPattern(original) ==
    << El("export", "1"), El("\\s", "+"),
       El("(const|let|var|class|function|interface|type)", "1"),
       El("\\s", "+") >>
    \o [i \in 1..Len(original) |-> El(original[i], "1")]
    \o << El("", "\\b") >>

RECURSIVE ReplaceTypo(_, _, _, _)
\* fixedContent.replace(exportPattern, `$1${typo.suggested}`)
ReplaceTypo(re, suggested, s, p) ==
    LET m == Search(re, s, p) IN
    IF m = <<>> THEN SubSeq(s, p, Len(s))
    ELSE SubSeq(s, p, m[1] - 1) \o Group(s, m, 1, 4) \o suggested
         \o ReplaceTypo(re, suggested, s, m[Len(m)])

RECURSIVE ApplyTypos(_, _)
\* the loop of applySemanticFixes over the sorted flags
ApplyTypos(sorted, st) ==
    IF sorted = <<>> THEN st
    ELSE LET typo == Head(sorted)
             after == ReplaceTypo(TypoPattern(typo.original), typo.suggested,
                                  st.content, 1)
         IN  IF typo.confidence = "high" /\ after # st.content
             THEN ApplyTypos(Tail(sorted),
                    [content |-> after,
                     fixes |-> Append(st.fixes, "export-name-typo")])
             ELSE ApplyTypos(Tail(sorted), st)

\* applySemanticFixes(content, filePath, typos)
AppliedResult(r) ==
    [fixed |-> Len(r.fixes) > 0, content |-> r.content, fixes |-> r.fixes]

applySemanticFixes(c, typos) ==
    AppliedResult(ApplyTypos(SortByLineDesc(typos),
                             [content |-> c, fixes |-> <<>>]))

\* semanticFix(content, filePath, allFiles)
SemanticOutcome(c, found, applied) ==
    IF found /\ applied.fixed
    THEN [fixed |-> TRUE, content |-> applied.content, errors |-> <<>>,
          fixes |-> applied.fixes, shouldCommit |-> TRUE]
    ELSE [fixed |-> FALSE, content |-> c, errors |-> <<>>,
          fixes |-> <<>>, shouldCommit |-> FALSE]

\* if (typos.length > 0) { const result = applySemanticFixes(...) ... }
SemanticFixWith(c, typos) ==
    SemanticOutcome(c, Len(typos) > 0, applySemanticFixes(c, typos))

\* a Naming Repair that leaves every file as it is
semanticFixSkipped(c, path, allFiles) ==
    [fixed |-> FALSE, content |-> c, errors |-> <<>>, fixes |-> <<>>,
     shouldCommit |-> FALSE]

semanticFix(c, path, allFiles) ==
    SemanticFixWith(c, detectExportNameTypos(c, path, allFiles))

----------------------------------------------------------------------------
(* The files of the repository under analysis (what getCodeFiles and       *)
(* getAllCodeFiles read from the clone)                                    *)

Path(base, ext) == [base |-> base, ext |-> ext]

File(path, c) == [path |-> path, content |-> c]

\* import { helper } from './helper';
MainJs ==
    <<"import", SP, "{", SP, "helper", SP, "}", SP, "from", SP,
      "'", "./helper", "'", ";">>

\* export const hp = 1;
HelperJs == <<"export", SP, "const", SP, "hp", SP, "=", SP, "1", ";">>

\* export const helper = 1;
HelperJsRenamed ==
    <<"export", SP, "const", SP, "helper", SP, "=", SP, "1", ";">>

\* export const helper = \n  async doWork() {}
ScenarioJs ==
    <<"export", SP, "const", SP, "helper", SP, "=", SP, NL,
      SP, SP, "async", SP, "doWork", "(", ")", SP, "{", "}">>

\* export const helper = {\n  async doWork() {}\n}
ScenarioJsRepaired ==
    <<"export", SP, "const", SP, "helper", SP, "=", SP, "{", NL,
      SP, SP, "async", SP, "doWork", "(", ")", SP, "{", "}", NL, "}">>

\* const a = 1\nfunction f() {
BrokenJs ==
    <<"const", SP, "a", SP, "=", SP, "1", NL,
      "function", SP, "f", "(", ")", SP, "{">>

\* const a = 1\nfunction f() {\n}
BrokenJsRepaired ==
    <<"const", SP, "a", SP, "=", SP, "1", NL,
      "function", SP, "f", "(", ")", SP, "{", NL, "}">>

\* function f() {}\nexport default f;
DupJs ==
    <<"function", SP, "f", "(", ")", SP, "{", "}", NL,
      "export", SP, "default", SP, "f", ";">>

\* function f( {
BadJs == <<"function", SP, "f", "(", SP, "{">>

\* function f( {\n})
BadJsRepaired == <<"function", SP, "f", "(", SP, "{", NL, "}", ")">>

\* )
WorseJs == <<")">>

\* \r\rfunction f() {}   (a file with CR line ends)
CrJs == <<CR, CR, "function", SP, "f", "(", ")", SP, "{", "}">>

\* class a {\n  f() {}\n}
ClsJs ==
    <<"class", SP, "a", SP, "{", NL, SP, SP, "f", "(", ")", SP, "{", "}",
      NL, "}">>

\* interface a {
TypesTs == <<"interface", SP, "a", SP, "{">>

\* interface a {\n}
TypesTsRepaired == <<"interface", SP, "a", SP, "{", NL, "}">>

\* import a\ndef f(a):
LibPy == <<"import", SP, "a", NL, "def", SP, "f", "(", "a", ")", ":">>

Catalogue ==
    << File(Path("main", ".js"), MainJs),
       File(Path("helper", ".js"), HelperJs),
       File(Path("helper", ".go"), HelperJs),
       File(Path("scenario", ".js"), ScenarioJs),
       File(Path("broken", ".js"), BrokenJs),
       File(Path("dup", ".js"), DupJs),
       File(Path("bad", ".js"), BadJs),
       File(Path("worse", ".js"), WorseJs),
       File(Path("cr", ".js"), CrJs),
       File(Path("cls", ".js"), ClsJs),
       File(Path("types", ".ts"), TypesTs),
       File(Path("lib", ".py"), LibPy) >>

----------------------------------------------------------------------------
(* The parser (@babel/parser) as the extractor sees it: the top-level      *)
(* nodes of ast.program.body, or a SyntaxError                             *)

Null == <<>>

Node(type, line) ==
    [type |-> type, line |-> line, id |-> Null, name |-> Null,
     declarations |-> <<>>, specifiers |-> <<>>, source |-> Null,
     members |-> <<>>, declaration |-> Null]

Program(body) == [ok |-> TRUE, body |-> body]

SyntaxError == [ok |-> FALSE, body |-> <<>>]

VariableDeclaration(line, names) ==
    [Node("VariableDeclaration", line) EXCEPT !.declarations = names]

FunctionDeclaration(line, name) ==
    [Node("FunctionDeclaration", line) EXCEPT !.id = name]

ExportNamedDeclaration(line, declaration) ==
    [Node("ExportNamedDeclaration", line) EXCEPT !.declaration = declaration]

\* parser.parse(content, {sourceType: 'module', plugins}) for the contents
\* that reach the parser; plugins are those of the language
Parse(c, language) ==
    CASE c = MainJs ->
            Program(<< [Node("ImportDeclaration", 1) EXCEPT
                          !.specifiers = << <<"helper">> >>,
                          !.source = <<"./helper">>] >>)
      [] c = HelperJs ->
            Program(<< ExportNamedDeclaration(1,
                          VariableDeclaration(1, << <<"hp">> >>)) >>)
      [] c = HelperJsRenamed ->
            Program(<< ExportNamedDeclaration(1,
                          VariableDeclaration(1, << <<"helper">> >>)) >>)
      [] c = ScenarioJsRepaired ->
            Program(<< ExportNamedDeclaration(1,
                          VariableDeclaration(1, << <<"helper">> >>)) >>)
      [] c = BrokenJsRepaired ->
            Program(<< VariableDeclaration(1, << <<"a">> >>),
                       FunctionDeclaration(2, <<"f">>) >>)
      [] c = DupJs ->
            Program(<< FunctionDeclaration(1, <<"f">>),
                       [Node("ExportDefaultDeclaration", 2) EXCEPT
                          !.declaration =
                              [Node("Identifier", 2) EXCEPT !.name = <<"f">>]] >>)
      [] c = CrJs -> Program(<< FunctionDeclaration(3, <<"f">>) >>)
      [] c = ClsJs ->
            Program(<< [Node("ClassDeclaration", 1) EXCEPT
                          !.id = <<"a">>,
                          !.members = << [type |-> "ClassMethod",
                                          key |-> <<"f">>, line |-> 2] >>] >>)
      [] c = TypesTsRepaired /\ language = "typescript" ->
            Program(<< [Node("TSInterfaceDeclaration", 1) EXCEPT
                          !.id = <<"a">>] >>)
      [] OTHER -> SyntaxError

----------------------------------------------------------------------------
(* Symbol Extractor: symbolGraph.js                                        *)

Symbol(name, type, line, from) ==
    [name |-> name, type |-> type, line |-> line, from |-> from]

\* extractDocstring(content, line) raises a TypeError when lines[line - 2]
\* is undefined: the parser counts every line terminator, split('\n') only \n
DocstringThrows(c, line) == line >= 2 /\ line - 2 >= Len(Split(c))

\* one symbols.push of the first pass: the symbol, and whether building it
\* calls extractDocstring
Push(sym, doc) == [sym |-> sym, doc |-> doc]

\* member.type === 'MethodDefinition' && member.key
MethodPushes(className, members) ==
    Flatten([i \in 1..Len(members) |->
        IF members[i].type = "MethodDefinition" /\ members[i].key # Null
        THEN << Push(Symbol(className \o <<".">> \o members[i].key, "method",
                            members[i].line, Null), TRUE) >>
        ELSE <<>>])

\* the name an export statement is recorded under
ExportedName(declaration) ==
    IF declaration.id # Null THEN declaration.id
    ELSE IF Len(declaration.declarations) > 0
         THEN declaration.declarations[1]
         ELSE Null

\* the pushes of the first pass for one node of ast.program.body
FirstPassPushes(node, language) ==
    (IF node.type = "ImportDeclaration"
     THEN [i \in 1..Len(node.specifiers) |->
              Push(Symbol(node.specifiers[i], "import", node.line, node.source),
                   TRUE)]
     ELSE <<>>)
    \o (IF language = "typescript" /\ node.type = "TSInterfaceDeclaration"
           /\ node.id # Null
        THEN << Push(Symbol(node.id, "interface", node.line, Null), TRUE) >>
        ELSE <<>>)
    \o (IF language = "typescript" /\ node.type = "TSTypeAliasDeclaration"
           /\ node.id # Null
        THEN << Push(Symbol(node.id, "type", node.line, Null), TRUE) >>
        ELSE <<>>)
    \o (IF node.type = "FunctionDeclaration" /\ node.id # Null
        THEN << Push(Symbol(node.id, "function", node.line, Null), TRUE) >>
        ELSE <<>>)
    \o (IF node.type = "ClassDeclaration" /\ node.id # Null
        THEN << Push(Symbol(node.id, "class", node.line, Null), TRUE) >>
             \o MethodPushes(node.id, node.members)
        ELSE <<>>)
    \o (IF node.type = "VariableDeclaration"
        THEN Flatten([i \in 1..Len(node.declarations) |->
                 IF node.declarations[i] # Null
                 THEN << Push(Symbol(node.declarations[i], "variable",
                                     node.line, Null), FALSE) >>
                 ELSE <<>>])
        ELSE <<>>)
    \o (IF node.type = "ExportNamedDeclaration" /\ node.declaration # Null
           /\ ExportedName(node.declaration) # Null
        THEN << Push(Symbol(ExportedName(node.declaration), "export",
                            node.line, Null), FALSE) >>
        ELSE <<>>)
    \o (IF node.type = "ExportDefaultDeclaration"
        THEN << Push(Symbol(IF node.declaration.id # Null
                              THEN node.declaration.id
                            ELSE IF node.declaration.name # Null
                              THEN node.declaration.name
                            ELSE <<"default">>,
                            "export", node.line, Null), FALSE) >>
        ELSE <<>>)

RECURSIVE RunPushes(_, _, _)
\* the pushes in order, up to the first one whose extractDocstring raises
RunPushes(pushes, c, acc) ==
    IF pushes = <<>> THEN [threw |-> FALSE, symbols |-> acc]
    ELSE IF Head(pushes).doc /\ DocstringThrows(c, Head(pushes).sym.line)
    THEN [threw |-> TRUE, symbols |-> acc]
    ELSE RunPushes(Tail(pushes), c, Append(acc, Head(pushes).sym))

\* the loop over ast.program.body of the first pass
ExtractFirstPass(body, c, language) ==
    RunPushes(Flatten([i \in 1..Len(body) |-> FirstPassPushes(body[i], language)]),
              c, <<>>)

\* the symbols the retry pass pushes for one node of ast.program.body
RetryPushes(node, language) ==
    (IF node.type = "ImportDeclaration"
     THEN [i \in 1..Len(node.specifiers) |->
              Symbol(node.specifiers[i], "import", node.line, node.source)]
     ELSE <<>>)
    \o (IF node.type = "FunctionDeclaration" /\ node.id # Null
        THEN << Symbol(node.id, "function", node.line, Null) >>
        ELSE <<>>)
    \o (IF node.type = "ClassDeclaration" /\ node.id # Null
        THEN << Symbol(node.id, "class", node.line, Null) >>
        ELSE <<>>)
    \o (IF language = "typescript" /\ node.type = "TSInterfaceDeclaration"
           /\ node.id # Null
        THEN << Symbol(node.id, "interface", node.line, Null) >>
        ELSE <<>>)
    \o (IF language = "typescript" /\ node.type = "TSTypeAliasDeclaration"
           /\ node.id # Null
        THEN << Symbol(node.id, "type", node.line, Null) >>
        ELSE <<>>)

\* the loop over ast.program.body of the retry pass
ExtractRetry(body, language) ==
    Flatten([i \in 1..Len(body) |-> RetryPushes(body[i], language)])

\* funcPatterns of extractGenericSymbols; name is the element of group 1
funcPatterns ==
    << [re |-> << El("function", "1"), El("\\s", "+"), El("\\w", "+"),
                  El("\\s", "*"), El("(", "1") >>, name |-> 3],
       [re |-> << El("def", "1"), El("\\s", "+"), El("\\w", "+"),
                  El("\\s", "*"), El("(", "1") >>, name |-> 3],
       [re |-> << El("\\w", "+"), El("\\s", "*"), El("[:=]", "1"),
                  El("\\s", "*"), El("function", "1"), El("\\s", "*"),
                  El("(", "1") >>, name |-> 1],
       [re |-> << El("\\w", "+"), El("\\s", "*"), El("[:=]", "1"),
                  El("\\s", "*"), El("(", "1"), El("[^)]", "*"), El(")", "1"),
                  El("\\s", "*"), El("=", "1"), El(">", "1") >>, name |-> 1],
       [re |-> << El("const", "1"), El("\\s", "+"), El("\\w", "+"),
                  El("\\s", "*"), El("=", "1"), El("\\s", "*"), El("(", "1"),
                  El("[^)]", "*"), El(")", "1"), El("\\s", "*"), El("=", "1"),
                  El(">", "1") >>, name |-> 3] >>

\* classPatterns of extractGenericSymbols
classPatterns ==
    << [re |-> << El("class", "1"), El("\\s", "+"), El("\\w", "+") >>,
        name |-> 3],
       [re |-> << El("interface", "1"), El("\\s", "+"), El("\\w", "+") >>,
        name |-> 3],
       [re |-> << El("type", "1"), El("\\s", "+"), El("\\w", "+"),
                  El("\\s", "*"), El("=", "1") >>, name |-> 3] >>

RECURSIVE FirstMatch(_, _, _, _, _)
\* for (const pattern of patterns) { if (line.match(pattern)) {push; break} }
FirstMatch(patterns, k, line, type, lineNum) ==
    IF k > Len(patterns) THEN <<>>
    ELSE LET m == Search(patterns[k].re, line, 1) IN
         IF m # <<>>
         THEN << Symbol(Group(line, m, patterns[k].name, patterns[k].name),
                        type, lineNum, Null) >>
         ELSE FirstMatch(patterns, k + 1, line, type, lineNum)

\* extractGenericSymbols(content, filePath)
extractGenericSymbols(c) ==
    LET lines == Split(c)
    IN  Flatten([i \in 1..Len(lines) |->
            FirstMatch(funcPatterns, 1, lines[i], "function", i)
            \o FirstMatch(classPatterns, 1, lines[i], "class", i)])

\* /^(?:from\s+(\S+)\s+)?import\s+(.+)/, with and without the optional group
pyImportPatterns ==
    << [re |-> << El("from", "1"), El("\\s", "+"), El("\\S", "+"),
                  El("\\s", "+"), El("import", "1"), El("\\s", "+"),
                  El(".", "+") >>, from |-> 3, names |-> 7],
       [re |-> << El("import", "1"), El("\\s", "+"), El(".", "+") >>,
        from |-> 0, names |-> 3] >>

\* /^def\s+(\w+)\s*\((.*?)\)/
pyFuncPattern ==
    << El("def", "1"), El("\\s", "+"), El("\\w", "+"), El("\\s", "*"),
       El("(", "1"), El(".", "*?"), El(")", "1") >>

\* /^class\s+(\w+)(?:\(.*?\))?:/, with and without the optional group
pyClassPatterns ==
    << << El("class", "1"), El("\\s", "+"), El("\\w", "+"), El("(", "1"),
          El(".", "*?"), El(")", "1"), El(":", "1") >>,
       << El("class", "1"), El("\\s", "+"), El("\\w", "+"), El(":", "1") >> >>

\* the symbols parsePython pushes for one line
PythonLine(line, lineNum) ==
    LET withFrom == MatchFrom(pyImportPatterns[1].re, 1, line, 1)
        plain == MatchFrom(pyImportPatterns[2].re, 1, line, 1)
        importMatch == IF withFrom # <<>> THEN 1 ELSE IF plain # <<>> THEN 2 ELSE 0
        m == IF importMatch = 1 THEN withFrom ELSE plain
        pat == pyImportPatterns[IF importMatch = 0 THEN 1 ELSE importMatch]
        parts == SplitOn(Group(line, m, pat.names, pat.names), ",", 1, <<>>)
        from == IF importMatch = 1 THEN Group(line, m, pat.from, pat.from)
                ELSE Null
        funcMatch == MatchFrom(pyFuncPattern, 1, line, 1)
        classMatch == IF MatchFrom(pyClassPatterns[1], 1, line, 1) # <<>>
                      THEN MatchFrom(pyClassPatterns[1], 1, line, 1)
                      ELSE MatchFrom(pyClassPatterns[2], 1, line, 1)
    IN  (IF importMatch # 0
         THEN [i \in 1..Len(parts) |->
                  Symbol(BeforeAs(Trim(parts[i]), 1), "import", lineNum, from)]
         ELSE <<>>)
        \o (IF funcMatch # <<>>
            THEN << Symbol(Group(line, funcMatch, 3, 3), "function", lineNum,
                           Null) >>
            ELSE <<>>)
        \o (IF classMatch # <<>>
            THEN << Symbol(Group(line, classMatch, 3, 3), "class", lineNum,
                           Null) >>
            ELSE <<>>)

\* parsePython(content, filePath)
parsePython(c) ==
    LET lines == Split(c)
    IN  [symbols |-> Flatten([i \in 1..Len(lines) |-> PythonLine(lines[i], i)]),
         fixApplied |-> Null]

JsExtensions == {".js", ".jsx", ".mjs"}
TsExtensions == {".ts", ".tsx"}
PyExtensions == {".py"}

\* detectLanguage(ext)
detectLanguage(ext) ==
    CASE ext \in {".js", ".jsx", ".mjs"} -> "javascript"
      [] ext \in {".ts", ".tsx"} -> "typescript"
      [] ext = ".py" -> "python"
      [] ext = ".go" -> "go"
      [] OTHER -> "unknown"

\* the plugins parseJavaScript and parseTypeScript hand to the parser
ParserLanguage(ext) == IF ext \in TsExtensions THEN "typescript" ELSE "javascript"

----------------------------------------------------------------------------
(* Graph Assembler: analyzeFile, buildEdges, serializeGraph                *)

EmptyMap == [k \in {} |-> Null]

\* map.set(key, value)
MapSet(map, key, value) == (key :> value) @@ map

\* map.get(key), null when absent
MapGet(map, key) == IF key \in DOMAIN map THEN map[key] ELSE Null

\* array.filter(s => s.type === type)
RECURSIVE FilterType(_, _)
FilterType(symbols, type) ==
    IF symbols = <<>> THEN <<>>
    ELSE (IF Head(symbols).type = type THEN <<Head(symbols)>> ELSE <<>>)
         \o FilterType(Tail(symbols), type)

\* `${file.path}::${symbol.name}`
SymbolId(path, name) == <<path, name>>

\* buildEdges(symbols, filePath, graph): the edges appended
buildEdges(symbols, path) ==
    LET imports == FilterType(symbols, "import")
    IN  [i \in 1..Len(imports) |->
            [from |-> SymbolId(path, imports[i].name),
             to |-> SymbolId(imports[i].from, imports[i].name),
             type |-> "imports"]]

RECURSIVE SetSymbols(_, _, _)
\* for (const symbol of symbols) graph.symbols.set(symbolId, {...})
SetSymbols(map, symbols, path) ==
    IF symbols = <<>> THEN map
    ELSE SetSymbols(MapSet(map, SymbolId(path, Head(symbols).name),
                           [name |-> Head(symbols).name,
                            type |-> Head(symbols).type,
                            line |-> Head(symbols).line,
                            from |-> Head(symbols).from,
                            id |-> SymbolId(path, Head(symbols).name),
                            file |-> path]),
                    Tail(symbols), path)

EmptyGraph ==
    [symbols |-> EmptyMap, files |-> EmptyMap, edges |-> <<>>,
     syntaxFixes |-> <<>>]

\* analyzeFile from the syntax-fix tracking on (lines 139-173)
RecordFile(g, file, symbols, syntaxFixApplied) ==
    [symbols |-> SetSymbols(g.symbols, symbols, file.path),
     files |-> MapSet(g.files, file.path,
                  [path |-> file.path,
                   language |-> detectLanguage(file.path.ext),
                   symbolCount |-> Len(symbols),
                   imports |-> FilterType(symbols, "import"),
                   exports |-> FilterType(symbols, "export")]),
     edges |-> g.edges \o buildEdges(symbols, file.path),
     syntaxFixes |->
        IF syntaxFixApplied # Null /\ syntaxFixApplied.shouldCommit
        THEN Append(g.syntaxFixes,
                    [filePath |-> file.path,
                     originalContent |-> file.content,
                     fixedContent |-> syntaxFixApplied.content,
                     fixes |-> syntaxFixApplied.fixes])
        ELSE g.syntaxFixes]

\* serializeGraph(graph), with the totalSymbols buildSymbolGraph sets
serializeGraph(g, totalFiles) ==
    [symbols |-> g.symbols, files |-> g.files, edges |-> g.edges,
     syntaxFixes |-> g.syntaxFixes,
     metadata |-> [totalSymbols |-> Cardinality(DOMAIN g.symbols),
                   totalFiles |-> totalFiles]]

----------------------------------------------------------------------------
(* Specification of Syntax Repair: an input is up to MaxLines lines, each  *)
(* one of SourceLines, joined by line breaks; smartFix runs on it, then on *)
(* its own output.                                                         *)

MaxLines == 3

SourceLines ==
    { <<>>,
      <<"{">>,
      <<"}">>,
      <<"}", ",">>,
      <<"(", "[">>,
      <<")">>,
      <<"export", SP, "const", SP, "helper", SP, "=", SP>>,
      <<SP, SP, "async", SP, "doWork", "(", ")", SP, "{", "}">>,
      <<"a", ":", SP, "1">>,
      <<"x", ":">>,
      <<"return", SP, "a">>,
      <<"const", SP, "a", SP, "=", SP, "1">> }

Extensions == {".js", ".ts"}

RepairInputs ==
    UNION { { Join(ls) : ls \in [1..n -> SourceLines] } : n \in 1..MaxLines }

NoResult == [fixed |-> FALSE, content |-> <<>>, errors |-> <<>>,
             fixes |-> <<>>, shouldCommit |-> FALSE]

\* parseJavaScript / parseTypeScript before the first parser call
IdleParse ==
    [pc |-> "idle", symbols |-> <<>>, fixResult |-> NoResult,
     fixApplied |-> Null, parserCalls |-> 0, repairCalls |-> 0,
     firstParsed |-> FALSE, secondParsed |-> FALSE]

\* no buildSymbolGraph call in progress
GraphOff ==
    /\ gpc = "off"
    /\ codeFiles = <<>>
    /\ allRepoFiles = <<>>
    /\ aliased = TRUE
    /\ idx = 1
    /\ semanticFixResults = EmptyMap
    /\ parse = IdleParse
    /\ graph = EmptyGraph
    /\ reported = {}
    /\ returned = Null

\* no repair call in progress outside buildSymbolGraph
RepairOff ==
    /\ rpc = "off"
    /\ content = <<>>
    /\ filePath = ".js"
    /\ res1 = NoResult
    /\ res2 = NoResult

\* no createCompactContext call in progress
CompactOff ==
    /\ cpc = "off"
    /\ context = Null
    /\ maxTokens = 0
    /\ estimated = 0
    /\ compactContext = Null

\* a thrown Error
Error(message) == [error |-> message]

IsError(r) == "error" \in DOMAIN r

\* what a call that did not throw returned (or its promise resolved to)
Value(v) == [value |-> v]

\* `${owner}/${repo}` of the repositories a run is asked for, spelled
\* character by character
RepoIds ==
    { <<"a", "/", "b">>,
      <<"a", "/", "b", ".", "c">>,
      <<"a", "/", "b", "_", "c">> }

\* sanitizeRepoId: repoId.replace(/[^a-zA-Z0-9-_]/g, '_')
sanitizeRepoId(id) ==
    [i \in 1..Len(id) |-> IF id[i] \in {"a", "b", "c", "-", "_"}
                            THEN id[i] ELSE "_"]

\* the names of the files INDEX_DIR can hold
IndexFiles == { sanitizeRepoId(id) : id \in RepoIds }

\* no runGhostCoder call in progress, INDEX_DIR empty
RunOff ==
    /\ rupc = "off"
    /\ runs = 1
    /\ repoId = <<>>
    /\ tempRepoPath = FALSE
    /\ syntaxFixesBranch = FALSE
    /\ embeddingIndex = Null
    /\ improvements = FALSE
    /\ status = "none"
    /\ indexDir = [name \in IndexFiles |-> Null]

\* no cosineSimilarity call in progress
CosineOff ==
    /\ copc = "off"
    /\ cvec1 = <<>>
    /\ cvec2 = <<>>
    /\ cosine = Null

\* no semanticSearch call in progress
SearchOff ==
    /\ sepc = "off"
    /\ searchIndex = Null
    /\ queryEmbedding = Null
    /\ topK = 0
    /\ topResults = Null

\* no call to the index store outside runGhostCoder
StoreOff ==
    /\ stpc = "off"
    /\ storeDir = [name \in IndexFiles |-> Null]
    /\ storeBefore = [name \in IndexFiles |-> Null]
    /\ storeCall = Null
    /\ storeCalls = 0

\* no semanticFix call outside buildSymbolGraph
NamingOff ==
    /\ napc = "off"
    /\ exporter = Null
    /\ importer = Null
    /\ namingResult = Null

\* no retrieveContext call in progress
RetrieveOff ==
    /\ rtpc = "off"
    /\ searchOutcome = Null
    /\ disk = Null
    /\ retrieveOptions = Null
    /\ retrieved = Null

\* no buildEmbeddingIndex call outside runGhostCoder
EmbedOff ==
    /\ embpc = "off"
    /\ embedGraph = Null
    /\ embedOutcome = Null
    /\ embedEnv = Null
    /\ embedDir = Null
    /\ built = Null

\* no smartFix call outside buildSymbolGraph
SmartOff ==
    /\ sfpc = "off"
    /\ given = Null
    /\ givenPath = Null
    /\ smartResult = Null

\* no caller of the memory store
MemoryOff ==
    /\ mpc = Null
    /\ mcall = Null
    /\ tries = Null
    /\ mstore = Null
    /\ moutcome = Null
    /\ lockFile = FALSE
    /\ memoryFile = Null
    /\ serial = Null
    /\ memoryCalls = 0

RecentOff ==
    /\ givenMax = 0
    /\ kept = <<>>
    /\ addedAll = <<>>
    /\ adds = 0
    /\ recent = <<>>

SnippetsOff ==
    /\ snpc = "off"
    /\ listing = <<>>
    /\ matched = <<>>
    /\ extracted = <<>>

DeliveryOff ==
    /\ dvpc = "off"
    /\ fixCount = 0
    /\ fixBranch = <<>>
    /\ branchName = <<>>
    /\ suggestions = 0
    /\ applicable = 0
    /\ branchesCreated = {}
    /\ headBranch = <<"base">>
    /\ commitLog = <<>>
    /\ pushLog = <<>>
    /\ pullRequests = <<>>
    /\ runStatus = "none"

\* (other parts: idle)
\* for each part of the model: every other part is idle
NotRepairOff ==
    /\ GraphOff
    /\ CompactOff
    /\ RunOff
    /\ CosineOff
    /\ SearchOff
    /\ StoreOff
    /\ NamingOff
    /\ RetrieveOff
    /\ EmbedOff
    /\ SmartOff
    /\ MemoryOff
    /\ RecentOff
    /\ SnippetsOff
    /\ DeliveryOff

NotGraphOff ==
    /\ RepairOff
    /\ CompactOff
    /\ RunOff
    /\ CosineOff
    /\ SearchOff
    /\ StoreOff
    /\ NamingOff
    /\ RetrieveOff
    /\ EmbedOff
    /\ SmartOff
    /\ MemoryOff
    /\ RecentOff
    /\ SnippetsOff
    /\ DeliveryOff

NotCompactOff ==
    /\ RepairOff
    /\ GraphOff
    /\ RunOff
    /\ CosineOff
    /\ SearchOff
    /\ StoreOff
    /\ NamingOff
    /\ RetrieveOff
    /\ EmbedOff
    /\ SmartOff
    /\ MemoryOff
    /\ RecentOff
    /\ SnippetsOff
    /\ DeliveryOff

NotRunOff ==
    /\ RepairOff
    /\ GraphOff
    /\ CompactOff
    /\ CosineOff
    /\ SearchOff
    /\ StoreOff
    /\ NamingOff
    /\ RetrieveOff
    /\ EmbedOff
    /\ SmartOff
    /\ MemoryOff
    /\ RecentOff
    /\ SnippetsOff
    /\ DeliveryOff

NotCosineOff ==
    /\ RepairOff
    /\ GraphOff
    /\ CompactOff
    /\ RunOff
    /\ SearchOff
    /\ StoreOff
    /\ NamingOff
    /\ RetrieveOff
    /\ EmbedOff
    /\ SmartOff
    /\ MemoryOff
    /\ RecentOff
    /\ SnippetsOff
    /\ DeliveryOff

NotSearchOff ==
    /\ RepairOff
    /\ GraphOff
    /\ CompactOff
    /\ RunOff
    /\ CosineOff
    /\ StoreOff
    /\ NamingOff
    /\ RetrieveOff
    /\ EmbedOff
    /\ SmartOff
    /\ MemoryOff
    /\ RecentOff
    /\ SnippetsOff
    /\ DeliveryOff

NotStoreOff ==
    /\ RepairOff
    /\ GraphOff
    /\ CompactOff
    /\ RunOff
    /\ CosineOff
    /\ SearchOff
    /\ NamingOff
    /\ RetrieveOff
    /\ EmbedOff
    /\ SmartOff
    /\ MemoryOff
    /\ RecentOff
    /\ SnippetsOff
    /\ DeliveryOff

NotNamingOff ==
    /\ RepairOff
    /\ GraphOff
    /\ CompactOff
    /\ RunOff
    /\ CosineOff
    /\ SearchOff
    /\ StoreOff
    /\ RetrieveOff
    /\ EmbedOff
    /\ SmartOff
    /\ MemoryOff
    /\ RecentOff
    /\ SnippetsOff
    /\ DeliveryOff

NotRetrieveOff ==
    /\ RepairOff
    /\ GraphOff
    /\ CompactOff
    /\ RunOff
    /\ CosineOff
    /\ SearchOff
    /\ StoreOff
    /\ NamingOff
    /\ EmbedOff
    /\ SmartOff
    /\ MemoryOff
    /\ RecentOff
    /\ SnippetsOff
    /\ DeliveryOff

NotEmbedOff ==
    /\ RepairOff
    /\ GraphOff
    /\ CompactOff
    /\ RunOff
    /\ CosineOff
    /\ SearchOff
    /\ StoreOff
    /\ NamingOff
    /\ RetrieveOff
    /\ SmartOff
    /\ MemoryOff
    /\ RecentOff
    /\ SnippetsOff
    /\ DeliveryOff

NotSmartOff ==
    /\ RepairOff
    /\ GraphOff
    /\ CompactOff
    /\ RunOff
    /\ CosineOff
    /\ SearchOff
    /\ StoreOff
    /\ NamingOff
    /\ RetrieveOff
    /\ EmbedOff
    /\ MemoryOff
    /\ RecentOff
    /\ SnippetsOff
    /\ DeliveryOff

NotMemoryOff ==
    /\ RepairOff
    /\ GraphOff
    /\ CompactOff
    /\ RunOff
    /\ CosineOff
    /\ SearchOff
    /\ StoreOff
    /\ NamingOff
    /\ RetrieveOff
    /\ EmbedOff
    /\ SmartOff
    /\ RecentOff
    /\ SnippetsOff
    /\ DeliveryOff

NotRecentOff ==
    /\ RepairOff
    /\ GraphOff
    /\ CompactOff
    /\ RunOff
    /\ CosineOff
    /\ SearchOff
    /\ StoreOff
    /\ NamingOff
    /\ RetrieveOff
    /\ EmbedOff
    /\ SmartOff
    /\ MemoryOff
    /\ SnippetsOff
    /\ DeliveryOff

NotSnippetsOff ==
    /\ RepairOff
    /\ GraphOff
    /\ CompactOff
    /\ RunOff
    /\ CosineOff
    /\ SearchOff
    /\ StoreOff
    /\ NamingOff
    /\ RetrieveOff
    /\ EmbedOff
    /\ SmartOff
    /\ MemoryOff
    /\ RecentOff
    /\ DeliveryOff

NotDeliveryOff ==
    /\ RepairOff
    /\ GraphOff
    /\ CompactOff
    /\ RunOff
    /\ CosineOff
    /\ SearchOff
    /\ StoreOff
    /\ NamingOff
    /\ RetrieveOff
    /\ EmbedOff
    /\ SmartOff
    /\ MemoryOff
    /\ RecentOff
    /\ SnippetsOff
\* (end of other parts: idle)

InitRepair ==
    /\ rpc = "input"
    /\ content \in RepairInputs
    /\ filePath \in Extensions
    /\ res1 = NoResult
    /\ res2 = NoResult
    /\ NotRepairOff

\* smartFix(content, filePath)
RepairOnce ==
    /\ rpc = "input"
    /\ res1' = smartFix(content, filePath)
    /\ rpc' = "once"
    /\ UNCHANGED <<content, filePath, res2, notRepair>>

\* smartFix(result.content, filePath): repair on its own output
RepairAgain ==
    /\ rpc = "once"
    /\ res2' = smartFix(res1.content, filePath)
    /\ rpc' = "twice"
    /\ UNCHANGED <<content, filePath, res1, notRepair>>

NextRepair == RepairOnce \/ RepairAgain

SpecRepair == InitRepair /\ [][NextRepair]_vars

----------------------------------------------------------------------------
(* Claims about Syntax Repair                                              *)

\* C1: Syntax Repair is idempotent: for every content and file path, smartFix
\* run on the content returned by a first smartFix reports fixed = false.
C1_IdempotentRepair == rpc = "twice" => res2.fixed = FALSE

Balanced(s) ==
    /\ Count(s, {"{"}) = Count(s, {"}"})
    /\ Count(s, {"("}) = Count(s, {")"})
    /\ Count(s, {"["}) = Count(s, {"]"})

\* C2: for any input content, also one with more closing than opening
\* tokens, the content returned by Syntax Repair has as many "{" as "}",
\* as many "(" as ")" and as many "[" as "]".
C2_BracketBalance == rpc = "once" => Balanced(res1.content)

\* C26: whenever Syntax Repair returns fixed = false, and with it
\* shouldCommit = false, the content it returns is the content it was
\* given: the repair never changes a content without reporting a fix.
C26_UnfixedUnchanged ==
    rpc = "once" /\ res1.fixed = FALSE =>
        /\ res1.shouldCommit = FALSE
        /\ res1.content = content

----------------------------------------------------------------------------
(* Specification of the Graph Assembler: buildSymbolGraph over one to      *)
(* MaxGraphFiles files of the repository                                   *)

MaxGraphFiles == 2

\* the lists of distinct files of the repository handed to buildSymbolGraph
GraphInputs ==
    UNION { { [i \in 1..n |-> Catalogue[f[i]]] :
                f \in { g \in [1..n -> 1..Len(Catalogue)] :
                          \A i, j \in 1..n : i # j => g[i] # g[j] } } :
            n \in 1..MaxGraphFiles }

InitGraph ==
    /\ gpc = "scan"
    /\ codeFiles \in GraphInputs
    /\ allRepoFiles = codeFiles
    /\ aliased = TRUE
    /\ idx = 1
    /\ semanticFixResults = EmptyMap
    /\ parse = IdleParse
    /\ graph = EmptyGraph
    /\ reported = {}
    /\ returned = Null
    /\ NotGraphOff

\* buildSymbolGraph lines 62-72: getAllCodeFiles(repoPath) finds the whole
\* repository, or nothing more than the files under analysis
ScanRepo ==
    /\ gpc = "scan"
    /\ \E allFiles \in {<<>>, Catalogue} :
          IF Len(allFiles) > Len(codeFiles)
          THEN allRepoFiles' = allFiles /\ aliased' = FALSE
          ELSE UNCHANGED <<allRepoFiles, aliased>>
    /\ gpc' = "semantic"
    /\ UNCHANGED <<codeFiles, idx, semanticFixResults, parse, graph, reported,
                   returned, notGraph>>

\* one pass of the phase 1 loop (lines 74-85)
SemanticFixFile ==
    /\ gpc = "semantic"
    /\ \E r \in {semanticFix(codeFiles[idx].content, codeFiles[idx].path,
                               allRepoFiles)} :
          /\ codeFiles' = IF r.fixed
                          THEN [codeFiles EXCEPT ![idx].content = r.content]
                          ELSE codeFiles
          /\ allRepoFiles' = IF aliased THEN codeFiles' ELSE allRepoFiles
          /\ semanticFixResults' =
                IF r.fixed
                THEN MapSet(semanticFixResults, codeFiles[idx].path, r)
                ELSE semanticFixResults
          /\ reported' =
                IF r.fixed /\ r.shouldCommit
                THEN reported \cup {[filePath |-> codeFiles[idx].path,
                                     content |-> r.content]}
                ELSE reported
    /\ IF idx = Len(codeFiles)
       THEN gpc' = "analyze" /\ idx' = 1
       ELSE gpc' = gpc /\ idx' = idx + 1
    /\ UNCHANGED <<aliased, parse, graph, returned, notGraph>>

Analysing == gpc = "analyze" /\ idx <= Len(codeFiles)

\* an error of the retry that no handler catches
retryErrorPropagates == "propagate"

\* the handler of an error of the retry (lines 332-334): log, then fall
\* through to the generic extraction
retryErrorHandler == "fallback"

\* parseJavaScript / parseTypeScript: the first try block
ParseFirst ==
    /\ Analysing
    /\ parse.pc = "idle"
    /\ codeFiles[idx].path.ext \in JsExtensions \cup TsExtensions
    /\ \E ast \in {Parse(codeFiles[idx].content,
                          ParserLanguage(codeFiles[idx].path.ext))} :
       \E ex \in {ExtractFirstPass(ast.body, codeFiles[idx].content,
                                   ParserLanguage(codeFiles[idx].path.ext))} :
          parse' = [IdleParse EXCEPT
                       !.parserCalls = 1,
                       !.firstParsed = ast.ok,
                       !.symbols = ex.symbols,
                       !.pc = IF ast.ok /\ ~ex.threw THEN "return" ELSE "catch"]
    /\ UNCHANGED <<gpc, codeFiles, allRepoFiles, aliased, idx,
                   semanticFixResults, graph, reported, returned, notGraph>>

\* the catch block: smartFix(content, filePath, error)
Repair ==
    /\ Analysing
    /\ parse.pc = "catch"
    /\ \E fixResult \in {smartFix(codeFiles[idx].content,
                                   codeFiles[idx].path.ext)} :
          /\ parse' = [parse EXCEPT
                         !.fixResult = fixResult,
                         !.repairCalls = @ + 1,
                         !.pc = IF fixResult.fixed THEN "retry" ELSE "fallback"]
          /\ reported' =
                IF fixResult.fixed /\ fixResult.shouldCommit
                THEN reported \cup {[filePath |-> codeFiles[idx].path,
                                     content |-> fixResult.content]}
                ELSE reported
    /\ UNCHANGED <<gpc, codeFiles, allRepoFiles, aliased, idx,
                   semanticFixResults, graph, returned, notGraph>>

\* the retry: parse fixResult.content and extract again; an error that the
\* retry does not handle leaves analyzeFile and is logged by the phase 2 loop
ParseSecond ==
    /\ Analysing
    /\ parse.pc = "retry"
    /\ \E ast \in {Parse(parse.fixResult.content,
                          ParserLanguage(codeFiles[idx].path.ext))} :
          IF ast.ok
          THEN /\ parse' = [parse EXCEPT
                              !.parserCalls = @ + 1,
                              !.secondParsed = TRUE,
                              !.symbols = @ \o ExtractRetry(ast.body,
                                   ParserLanguage(codeFiles[idx].path.ext)),
                              !.fixApplied = parse.fixResult,
                              !.pc = "return"]
               /\ idx' = idx
          ELSE IF retryErrorHandler = "fallback"
          THEN /\ parse' = [parse EXCEPT !.parserCalls = @ + 1,
                                         !.pc = "fallback"]
               /\ idx' = idx
          ELSE /\ parse' = [parse EXCEPT !.parserCalls = @ + 1, !.pc = "idle"]
               /\ idx' = idx + 1
    /\ UNCHANGED <<gpc, codeFiles, allRepoFiles, aliased, semanticFixResults,
                   graph, reported, returned, notGraph>>

\* lines 337-339: fall back to the regex extraction of the unrepaired content
Fallback ==
    /\ Analysing
    /\ parse.pc = "fallback"
    /\ parse' = [parse EXCEPT
                    !.symbols = extractGenericSymbols(codeFiles[idx].content),
                    !.fixApplied = Null,
                    !.pc = "return"]
    /\ UNCHANGED <<gpc, codeFiles, allRepoFiles, aliased, idx,
                   semanticFixResults, graph, reported, returned, notGraph>>

\* analyzeFile of a file that is neither JavaScript nor TypeScript, up to
\* the extraction (lines 130-137)
ExtractOther ==
    /\ Analysing
    /\ parse.pc = "idle"
    /\ codeFiles[idx].path.ext \notin JsExtensions \cup TsExtensions
    /\ parse' = [IdleParse EXCEPT
                    !.symbols =
                        IF codeFiles[idx].path.ext \in PyExtensions
                        THEN parsePython(codeFiles[idx].content).symbols
                        ELSE extractGenericSymbols(codeFiles[idx].content),
                    !.pc = "return"]
    /\ UNCHANGED <<gpc, codeFiles, allRepoFiles, aliased, idx,
                   semanticFixResults, graph, reported, returned, notGraph>>

\* the fix analyzeFile tracks: the parser's fixApplied for JavaScript,
\* TypeScript and Python, the semantic fix of phase 1 otherwise
SyntaxFixApplied(file) ==
    IF file.path.ext \in JsExtensions \cup TsExtensions \cup PyExtensions
    THEN parse.fixApplied
    ELSE MapGet(semanticFixResults, file.path)

\* analyzeFile from line 139 on, and the next pass of the phase 2 loop
Record ==
    /\ Analysing
    /\ parse.pc = "return"
    /\ graph' = RecordFile(graph, codeFiles[idx], parse.symbols,
                           SyntaxFixApplied(codeFiles[idx]))
    /\ parse' = [parse EXCEPT !.pc = "idle"]
    /\ idx' = idx + 1
    /\ UNCHANGED <<gpc, codeFiles, allRepoFiles, aliased, semanticFixResults,
                   reported, returned, notGraph>>

\* lines 101-104: return serializeGraph(graph)
Finish ==
    /\ gpc = "analyze"
    /\ idx > Len(codeFiles)
    /\ returned' = serializeGraph(graph, Len(codeFiles))
    /\ gpc' = "done"
    /\ UNCHANGED <<codeFiles, allRepoFiles, aliased, idx, semanticFixResults,
                   parse, graph, reported, notGraph>>

NextGraph ==
    \/ ScanRepo
    \/ SemanticFixFile
    \/ ParseFirst
    \/ Repair
    \/ ParseSecond
    \/ Fallback
    \/ ExtractOther
    \/ Record
    \/ Finish

SpecGraph == InitGraph /\ [][NextGraph]_vars

----------------------------------------------------------------------------
(* Claims about the Symbol Extractor and the Graph Assembler               *)

\* C4: in the returned graph, for every symbol s, files[s.file].symbolCount
\* is the number of symbols of the graph whose file is s.file, also when a
\* file yields two symbols of one name.
C4_SymbolCount ==
    gpc = "done" =>
        \A id \in DOMAIN returned.symbols :
            returned.files[returned.symbols[id].file].symbolCount
              = Cardinality({j \in DOMAIN returned.symbols :
                               returned.symbols[j].file = returned.symbols[id].file})

\* C6: every fix that Naming Repair (phase 1) or Syntax Repair (phase 2)
\* returned with shouldCommit has an entry in syntaxFixes of the returned
\* graph, for its file and with its repaired content.
C6_FixesAggregated ==
    gpc = "done" =>
        \A r \in reported :
            \E i \in 1..Len(returned.syntaxFixes) :
                /\ returned.syntaxFixes[i].filePath = r.filePath
                /\ returned.syntaxFixes[i].fixedContent = r.content

\* C7: extraction yields a symbol array for every file, and a parse failure
\* in one file never keeps another file from being analysed: every file the
\* phase 2 loop has passed is in graph.files, and in the returned graph every
\* input file is.
C7_ExtractionTotal ==
    /\ parse.pc = "return" => DOMAIN parse.symbols = 1..Len(parse.symbols)
    /\ (gpc = "analyze" /\ parse.pc = "idle") =>
          \A i \in 1..(idx - 1) : codeFiles[i].path \in DOMAIN graph.files
    /\ gpc = "done" =>
          \A i \in 1..Len(codeFiles) : codeFiles[i].path \in DOMAIN returned.files

\* C7 happens: a graph was returned for two files, the first of which fails
\* to parse before and after repair, and the second file is in the graph.
C7_Witness ==
    /\ gpc = "done"
    /\ Len(codeFiles) = 2
    /\ codeFiles[1].content = BadJs
    /\ parse.parserCalls >= 1
    /\ codeFiles[2].path \in DOMAIN returned.files
    /\ codeFiles[1].path \in DOMAIN returned.files

\* C8: per JavaScript/TypeScript file, Syntax Repair runs only after the
\* initial parse failed and at most once, the parser is called at most twice,
\* a repair that fixed nothing or whose result does not parse ends in the
\* generic extraction with fixApplied null, and a fix is reported only when
\* the second parse succeeded.
C8_RetryProtocol ==
    /\ parse.repairCalls <= 1
    /\ parse.parserCalls <= 2
    /\ parse.repairCalls > 0 => ~parse.firstParsed
    /\ (/\ parse.pc = "return"
        /\ parse.repairCalls > 0
        /\ (~parse.fixResult.fixed \/ ~parse.secondParsed)) =>
          /\ parse.symbols = extractGenericSymbols(codeFiles[idx].content)
          /\ parse.fixApplied = Null
    /\ parse.fixApplied # Null => parse.secondParsed

\* the names and kinds of a symbol array
NamesAndKinds(symbols) ==
    [i \in 1..Len(symbols) |-> <<symbols[i].name, symbols[i].type>>]

\* C9: when the repaired content parses, the symbols of the retry are, by
\* name and kind, the symbols the first-pass extraction gives for that content.
C9_SameExtraction ==
    (parse.pc = "return" /\ parse.secondParsed) =>
        NamesAndKinds(parse.symbols)
          = NamesAndKinds(
              ExtractFirstPass(
                Parse(parse.fixResult.content,
                      ParserLanguage(codeFiles[idx].path.ext)).body,
                parse.fixResult.content,
                ParserLanguage(codeFiles[idx].path.ext)).symbols)

\* C10: for the file "export const helper = / async doWork() {}", Syntax
\* Repair inserts the "{", the extraction result has a symbol named doWork,
\* and the reported fix has shouldCommit true.
C10_Scenario ==
    (parse.pc = "return" /\ gpc = "analyze" /\ idx <= Len(codeFiles)
       /\ codeFiles[idx].content = ScenarioJs) =>
        /\ parse.fixResult.content = ScenarioJsRepaired
        /\ \E i \in 1..Len(parse.symbols) : parse.symbols[i].name = <<"doWork">>
        /\ parse.fixApplied # Null
        /\ parse.fixApplied.shouldCommit

----------------------------------------------------------------------------
(* Context compaction (contextRetriever.js).  The rendered bundle is a    *)
(* string; its length is the length of the string formatContextForAI      *)
(* builds.                                                                 *)

\* Array.prototype.slice(0, n)
Slice(s, n) == SubSeq(s, 1, IF Len(s) < n THEN Len(s) ELSE n)

\* Array.prototype.join(sep) of an array of strings
RECURSIVE JoinWith(_, _)
JoinWith(parts, sep) ==
    IF parts = <<>> THEN ""
    ELSE IF Len(parts) = 1 THEN parts[1]
    ELSE JoinWith(SubSeq(parts, 1, Len(parts) \div 2), sep) \o sep
         \o JoinWith(SubSeq(parts, Len(parts) \div 2 + 1, Len(parts)), sep)

\* (similarity * 100).toFixed(1); a similarity is held in thousandths
ToFixed1(similarity) ==
    ToString(similarity \div 10) \o "." \o ToString(similarity % 10)

\* JSON.stringify(symbolTypes, null, 2); the object is the sequence of its
\* <<key, count>> entries in insertion order
JSONStringify(symbolTypes) ==
    IF symbolTypes = <<>> THEN "{}"
    ELSE "{\n"
         \o JoinWith([i \in 1..Len(symbolTypes) |->
                        "  \"" \o symbolTypes[i][1] \o "\": "
                        \o ToString(symbolTypes[i][2])], ",\n")
         \o "\n}"

\* new Set() filled in order, then Array.from
RECURSIVE Distinct(_, _)
Distinct(s, acc) ==
    IF s = <<>> THEN acc
    ELSE Distinct(Tail(s),
                  IF \E i \in 1..Len(acc) : acc[i] = Head(s)
                  THEN acc ELSE Append(acc, Head(s)))

\* summary.symbolTypes[symbol.type] = (... || 0) + 1 for each symbol
RECURSIVE Tally(_, _)
Tally(types, acc) ==
    IF types = <<>> THEN acc
    ELSE Tally(Tail(types),
               IF \E i \in 1..Len(acc) : acc[i][1] = Head(types)
               THEN [i \in 1..Len(acc) |->
                       IF acc[i][1] = Head(types)
                       THEN <<acc[i][1], acc[i][2] + 1>> ELSE acc[i]]
               ELSE Append(acc, <<Head(types), 1>>))

TopFile(f) ==
    [path |-> f.path, symbolCount |-> Len(f.relevantSymbols),
     language |-> f.language]

SummaryOf(files, symbols) ==
    [totalFiles |-> Len(files),
     totalSymbols |-> Len(symbols),
     languages |-> Distinct([i \in 1..Len(files) |-> files[i].language], <<>>),
     symbolTypes |->
         Tally(Flatten([i \in 1..Len(files) |->
                          [j \in 1..Len(files[i].relevantSymbols) |->
                             files[i].relevantSymbols[j].type]]), <<>>),
     topFiles |-> [i \in 1..Len(Slice(files, 5)) |-> TopFile(files[i])]]

generateContextSummary(ctx) == SummaryOf(ctx.relevantFiles, ctx.relevantSymbols)

SymbolSections(symbol) ==
    <<"  - " \o symbol.name \o " (" \o symbol.type \o ") at line "
      \o ToString(symbol.line)>>
    \o (IF symbol.documentation # ""
        THEN <<"    Doc: " \o symbol.documentation>> ELSE <<>>)
    \o (IF symbol.signature # ""
        THEN <<"    Signature: " \o symbol.signature>> ELSE <<>>)
    \o <<"    Relevance: " \o ToFixed1(symbol.similarity) \o "%">>

\* the code fence of a snippet: two blanks and three grave accents, which
\* a string of this module cannot hold; tildes stand for them
Fence == "  ~~~"

SnippetSections(snippet) ==
    <<"\n  Symbol: " \o snippet.symbolName \o " (line "
      \o ToString(snippet.line) \o ")",
      Fence, snippet.code, Fence>>

\* the sections of one file
EachOf(items, n, Sections(_)) ==
    Flatten([i \in 1..Len(Slice(items, n)) |-> Sections(items[i])])

FileSections(file) ==
    <<"\n--- File: " \o file.path \o " (" \o file.language \o ") ---">>
    \o (IF Len(file.imports) > 0
        THEN <<"Imports: " \o JoinWith(file.imports, ", ")>> ELSE <<>>)
    \o (IF Len(file.exports) > 0
        THEN <<"Exports: " \o JoinWith(file.exports, ", ")>> ELSE <<>>)
    \o <<"\nRelevant Symbols:">>
    \o EachOf(file.relevantSymbols, 10, SymbolSections)
    \o (IF file.snippet # Null /\ Len(file.snippet) > 0
        THEN <<"\nCode Snippets:">> \o EachOf(file.snippet, 3, SnippetSections)
        ELSE <<>>)

TopFileSection(fileInfo) ==
    <<"- " \o fileInfo.path \o " (" \o fileInfo.language \o ", "
      \o ToString(fileInfo.symbolCount) \o " relevant symbols)">>

DependencySection(dep) ==
    <<dep.from \o " -> " \o dep.to \o " (" \o dep.symbol \o ")">>

formatContextForAI(ctx) ==
    JoinWith(
        <<"=== CODE CONTEXT SUMMARY ===",
          "Total Files: " \o ToString(ctx.summary.totalFiles),
          "Total Symbols: " \o ToString(ctx.summary.totalSymbols),
          "Languages: " \o JoinWith(ctx.summary.languages, ", "),
          "Symbol Types: " \o JSONStringify(ctx.summary.symbolTypes),
          "",
          "=== TOP RELEVANT FILES ===">>
        \o EachOf(ctx.summary.topFiles, Len(ctx.summary.topFiles),
                  TopFileSection)
        \o <<"", "=== FILE DETAILS ===">>
        \o EachOf(ctx.relevantFiles, Len(ctx.relevantFiles), FileSections)
        \o (IF Len(ctx.dependencies) > 0
            THEN <<"\n=== DEPENDENCIES ===">>
                 \o EachOf(ctx.dependencies, 20, DependencySection)
            ELSE <<>>),
        "\n")

\* Math.ceil(text.length / 4)
estimateTokens(text) == (Len(text) + 3) \div 4

\* the files of a compact bundle kept as they are
KeepFiles(files) == files

\* createCompactContext lines 487-492: file.fullContent = null and
\* file.snippet = file.snippet.slice(0, 2), written into the file objects
CompactFiles(files) ==
    [i \in 1..Len(files) |->
       [files[i] EXCEPT !.fullContent = Null,
                        !.snippet = IF @ # Null THEN Slice(@, 2) ELSE @]]

\* createCompactContext lines 477-494: the reduced copy
Compacted(ctx) ==
    [ctx EXCEPT !.relevantFiles = CompactFiles(Slice(@, 5)),
                !.relevantSymbols = Slice(@, 20),
                !.callGraph = Slice(@, 10),
                !.dependencies = Slice(@, 10)]

createCompactContext(ctx, budget) ==
    IF estimateTokens(formatContextForAI(ctx)) <= budget
    THEN ctx ELSE Compacted(ctx)

\* the bundle the caller handed in, after the call: the copy is shallow,
\* its first five files are the file objects of the caller
SharedFiles(ctx, budget) ==
    IF estimateTokens(formatContextForAI(ctx)) <= budget
    THEN ctx
    ELSE [ctx EXCEPT !.relevantFiles =
                        CompactFiles(Slice(@, 5)) \o SubSeq(@, 6, Len(@))]

----------------------------------------------------------------------------
(* Specification of compaction: one createCompactContext call on a bundle  *)
(* as retrieveContext builds it                                            *)

\* how far a bundle may exceed each cap of createCompactContext
MaxOver == 1

\* file.relevantSymbols entry of buildFileContext
ContextSymbol(line) ==
    [name |-> "f", type |-> "function", line |-> line, similarity |-> 875,
     documentation |-> "", signature |-> "function f()"]

\* one entry of extractRelevantSnippets
Snippet(line) ==
    [symbolName |-> "f", line |-> line, code |-> "1: function f() {}\n"]

\* buildFileContext: snippets, and the full content when asked for
FileContext(i, snippets, full) ==
    [path |-> "f" \o ToString(i) \o ".js",
     language |-> "javascript",
     relevantSymbols |-> <<ContextSymbol(1)>>,
     imports |-> <<>>,
     exports |-> <<"f">>,
     snippet |-> [k \in 1..snippets |-> Snippet(k)],
     fullContent |-> IF full THEN <<"function f() {}">> ELSE Null]

\* one result of semanticSearch
SearchResult(i) ==
    [symbolName |-> "f", symbolType |-> "function",
     file |-> "f" \o ToString(i) \o ".js", line |-> 1, similarity |-> 875]

Dependency(i) ==
    [from |-> "f1.js", to |-> "f" \o ToString(i) \o ".js",
     type |-> "imports", symbol |-> "f"]

Call(i) ==
    [caller |-> "f" \o ToString(i) \o ".js:g", callee |-> "f1.js:f",
     symbolName |-> "f"]

Bundle(files, symbols, calls, deps) ==
    [relevantFiles |-> files, relevantSymbols |-> symbols,
     callGraph |-> calls, dependencies |-> deps,
     summary |-> SummaryOf(files, symbols)]

Sizes(cap) == {0, cap, cap + MaxOver}

ContextInputs ==
    { Bundle([i \in 1..nf |-> FileContext(i, ns, full)],
             [i \in 1..ny |-> SearchResult(i)],
             [i \in 1..nc |-> Call(i)],
             [i \in 1..nd |-> Dependency(i)]) :
        nf \in 0..(5 + MaxOver), ns \in 0..(2 + MaxOver), full \in BOOLEAN,
        ny \in Sizes(20), nc \in Sizes(10), nd \in Sizes(10) }

\* budgets: none, a small one, the one of runGhostCoder
Budgets == {0, 100, 30000}

InitCompact ==
    /\ cpc = "input"
    /\ context \in ContextInputs
    /\ maxTokens \in Budgets
    /\ estimated = 0
    /\ compactContext = Null
    /\ NotCompactOff

\* const compactContext = createCompactContext(context, maxTokens)
CreateCompactContext ==
    /\ cpc = "input"
    /\ estimated' = estimateTokens(formatContextForAI(context))
    /\ compactContext' = createCompactContext(context, maxTokens)
    /\ context' = SharedFiles(context, maxTokens)
    /\ cpc' = "done"
    /\ UNCHANGED <<maxTokens, notCompact>>

NextCompact == CreateCompactContext

SpecCompact == InitCompact /\ [][NextCompact]_vars

----------------------------------------------------------------------------
(* Claims about compaction                                                 *)

WithinCaps(ctx) ==
    /\ Len(ctx.relevantFiles) <= 5
    /\ Len(ctx.relevantSymbols) <= 20
    /\ Len(ctx.dependencies) <= 10
    /\ Len(ctx.callGraph) <= 10
    /\ \A i \in 1..Len(ctx.relevantFiles) :
          /\ Len(ctx.relevantFiles[i].snippet) <= 2
          /\ ctx.relevantFiles[i].fullContent = Null

\* C3 as stated: createCompactContext never returns a bundle exceeding its
\* caps, for every input bundle and every maxTokens budget: at most 5
\* relevantFiles, 20 relevantSymbols, 10 dependencies, 10 callGraph entries,
\* 2 snippets per file, and no fullContent.
C3_CapsAlways == cpc = "done" => WithinCaps(compactContext)

\* C3 amended: when the estimate of the rendered bundle exceeds maxTokens,
\* the returned bundle is within every cap and holds no fullContent; when
\* the estimate is within maxTokens, the input bundle itself is returned,
\* whatever its size.
C3_CapsWhenOverBudget ==
    cpc = "done" =>
        IF estimated > maxTokens
        THEN WithinCaps(compactContext)
        ELSE compactContext = context

\* C3 witness: a bundle over every cap and over budget was compacted
C3_Witness ==
    /\ cpc = "done"
    /\ estimated > maxTokens
    /\ maxTokens > 0
    /\ Len(context.relevantFiles) > 5
    /\ Len(context.relevantFiles[6].snippet) > 2
    /\ context.relevantFiles[6].fullContent # Null
    /\ Len(context.relevantSymbols) > 20
    /\ Len(context.dependencies) > 10
    /\ Len(context.callGraph) > 10
    /\ Len(compactContext.relevantFiles) = 5
    /\ WithinCaps(compactContext)

\* C29: createCompactContext does not modify the bundle passed to it:
\* after the call the relevantFiles of the input bundle have the
\* fullContent and the snippets they had before it, whether or not the
\* bundle was compacted.
C29_InputKept ==
    [][cpc = "input" /\ cpc' = "done" =>
          \A i \in 1..Len(context.relevantFiles) :
              /\ context'.relevantFiles[i].fullContent
                    = context.relevantFiles[i].fullContent
              /\ context'.relevantFiles[i].snippet
                    = context.relevantFiles[i].snippet]_vars

----------------------------------------------------------------------------
(* The stored embedding index (embeddingIndex.js) and its life over the    *)
(* runs of runGhostCoder (ghost_engine.js).  A store is the content of     *)
(* INDEX_DIR: file name -> stored index, Null where there is no file.      *)

indexExists(dir, id) == dir[sanitizeRepoId(id)] # Null

\* a stored file is held as the index its JSON text parses to; Corrupt is
\* a file whose text JSON.parse rejects
Corrupt == [text |-> "{"]

\* a loadIndex that takes a file it cannot parse for a missing one
loadIndexOrNull(dir, id) ==
    IF dir[sanitizeRepoId(id)] = Corrupt THEN Null
    ELSE dir[sanitizeRepoId(id)]

\* loadIndex lines 322-338: the parsed index, null when there is no file
\* (ENOENT), any other error thrown on
loadIndex(dir, id) ==
    IF dir[sanitizeRepoId(id)] = Corrupt
    THEN Error("Unexpected end of JSON input")
    ELSE dir[sanitizeRepoId(id)]

saveIndex(dir, index, id) == [dir EXCEPT ![sanitizeRepoId(id)] = index]

deleteIndex(dir, id) == [dir EXCEPT ![sanitizeRepoId(id)] = Null]

\* buildEmbeddingIndex lines 85-93: the index of repoId built at time now
\* (the embeddings themselves are left out)
NewIndex(id, now) == [repoId |-> id, metadata |-> [buildTime |-> now]]

----------------------------------------------------------------------------
(* Specification of runGhostCoder: MaxRuns runs, one after the other, each *)
(* for one of the repositories; a call to the network, to git or to the    *)
(* model may throw                                                         *)

MaxRuns == 3

InitRun ==
    /\ rupc = "idle"
    /\ runs = 1
    /\ repoId = <<>>
    /\ tempRepoPath = FALSE
    /\ syntaxFixesBranch = FALSE
    /\ embeddingIndex = Null
    /\ improvements = FALSE
    /\ status = "none"
    /\ indexDir \in [IndexFiles -> {Null, Corrupt}]
    /\ NotRunOff

\* runGhostCoder lines 361-370, the catch block: the clone is deleted, the
\* error is thrown on; the stored index is left alone
Thrown ==
    /\ tempRepoPath' = FALSE
    /\ status' = "error"
    /\ rupc' = "ended"
    /\ indexDir' = indexDir

\* deleteDirectory(tempRepoPath); deleteIndex(repoId); return {... status}
Cleanup(result) ==
    /\ tempRepoPath' = FALSE
    /\ indexDir' = deleteIndex(indexDir, repoId)
    /\ status' = result
    /\ rupc' = "ended"

\* lines 46-103: validateEnvVars, parseGitHubUrl, getRepoInfo and
\* cloneRepository; each may throw
StartRun ==
    /\ rupc = "idle"
    /\ \E id \in RepoIds, thrown \in BOOLEAN :
         /\ repoId' = id
         /\ IF thrown
            THEN Thrown
            ELSE /\ tempRepoPath' = TRUE
                 /\ rupc' = "scan"
                 /\ UNCHANGED <<status, indexDir>>
    /\ UNCHANGED <<runs, syntaxFixesBranch, embeddingIndex, improvements,
                   notRun>>

\* lines 107-117: getCodeFiles; no file ends the run with no_files_found
ScanFiles ==
    /\ rupc = "scan"
    /\ \E found \in BOOLEAN :
         IF found
         THEN /\ rupc' = "graph"
              /\ UNCHANGED status
         ELSE /\ rupc' = "ended"
              /\ status' = "no_files_found"
    /\ UNCHANGED <<runs, repoId, tempRepoPath, syntaxFixesBranch,
                   embeddingIndex, improvements, indexDir,
                   notRun>>

\* lines 124-150: buildSymbolGraph; syntax fixes are written, a branch is
\* created and the fixes committed, which may throw
BuildGraph ==
    /\ rupc = "graph"
    /\ \E fixes \in BOOLEAN, thrown \in BOOLEAN :
         IF fixes /\ thrown
         THEN Thrown /\ UNCHANGED syntaxFixesBranch
         ELSE /\ syntaxFixesBranch' = fixes
              /\ rupc' = "index"
              /\ UNCHANGED <<tempRepoPath, status, indexDir>>
    /\ UNCHANGED <<runs, repoId, embeddingIndex, improvements,
                   notRun>>

\* lines 153-163: the stored index of repoId is loaded when there is one,
\* else one is built and saved; the embedding pipeline may throw, and so
\* does loadIndex on a file it cannot parse
LoadOrBuildIndex ==
    /\ rupc = "index"
    /\ IF indexExists(indexDir, repoId)
       THEN IF IsError(loadIndex(indexDir, repoId))
            THEN Thrown /\ UNCHANGED embeddingIndex
            ELSE /\ embeddingIndex' = loadIndex(indexDir, repoId)
                 /\ rupc' = "context"
                 /\ UNCHANGED <<tempRepoPath, status, indexDir>>
       ELSE \E thrown \in BOOLEAN :
              IF thrown
              THEN Thrown /\ UNCHANGED embeddingIndex
              ELSE /\ embeddingIndex' = NewIndex(repoId, runs)
                   /\ indexDir' =
                        saveIndex(indexDir, NewIndex(repoId, runs), repoId)
                   /\ rupc' = "context"
                   /\ UNCHANGED <<tempRepoPath, status>>
    /\ UNCHANGED <<runs, repoId, syntaxFixesBranch, improvements,
                   notRun>>

\* lines 165-183: retrieveContext, createCompactContext,
\* formatContextForAI and analyzeCodeWithAI, which may throw
Analyse ==
    /\ rupc = "context"
    /\ \E thrown \in BOOLEAN, found \in BOOLEAN :
         IF thrown
         THEN Thrown /\ UNCHANGED improvements
         ELSE /\ improvements' = found
              /\ rupc' = "deliver"
              /\ UNCHANGED <<tempRepoPath, status, indexDir>>
    /\ UNCHANGED <<runs, repoId, syntaxFixesBranch, embeddingIndex,
                   notRun>>

\* lines 185-358: the four ways a run returns after the analysis; pushing
\* the branch and opening the pull request may throw
Deliver ==
    /\ rupc = "deliver"
    /\ \E thrown \in BOOLEAN, changes \in BOOLEAN :
         IF ~improvements
         THEN IF syntaxFixesBranch
              THEN IF thrown THEN Thrown ELSE Cleanup("syntax_fixes_only")
              ELSE Cleanup("no_improvements")
         ELSE IF thrown THEN Thrown
              ELSE IF changes THEN Cleanup("success")
              ELSE Cleanup("no_changes")
    /\ UNCHANGED <<runs, repoId, syntaxFixesBranch, embeddingIndex,
                   improvements, notRun>>

\* the next call of runGhostCoder
NextRun ==
    /\ rupc = "ended"
    /\ runs < MaxRuns
    /\ runs' = runs + 1
    /\ rupc' = "idle"
    /\ repoId' = <<>>
    /\ tempRepoPath' = FALSE
    /\ syntaxFixesBranch' = FALSE
    /\ embeddingIndex' = Null
    /\ improvements' = FALSE
    /\ status' = "none"
    /\ UNCHANGED <<indexDir, notRun>>

NextRuns ==
    \/ StartRun
    \/ ScanFiles
    \/ BuildGraph
    \/ LoadOrBuildIndex
    \/ Analyse
    \/ Deliver
    \/ NextRun

SpecRun == InitRun /\ [][NextRuns]_vars

----------------------------------------------------------------------------
(* Claims about the index lifecycle                                        *)

\* C5: every run of runGhostCoder that loads or builds the embedding index
\* for a repoId has deleted that stored index when the run has ended, and
\* the index a run works with is one it built itself, never one left by
\* an earlier run.
C5_IndexDeletedAtEnd ==
    /\ rupc = "ended" /\ embeddingIndex # Null
         => ~indexExists(indexDir, repoId)
    /\ embeddingIndex # Null => embeddingIndex.metadata.buildTime = runs

----------------------------------------------------------------------------
(* Similarity of embeddings (embeddingIndex.js).  Vectors hold integers    *)
(* and the arithmetic is exact: the real number num / sqrt(rad) is the     *)
(* record [num, rad], so that Math.sqrt(n) is 0 exactly when n is 0; the   *)
(* rounding of double precision is not part of the model.                  *)

\* the number 0
Zero == [num |-> 0, rad |-> 1]

\* cosineSimilarity lines 246-250: sum of vec1[i] * vec2[i]
RECURSIVE Dot(_, _)
Dot(vec1, vec2) ==
    IF vec1 = <<>> THEN 0
    ELSE Head(vec1) * Head(vec2) + Dot(Tail(vec1), Tail(vec2))

\* the value dotProduct / (norm1 * norm2) after the square roots
Quotient(dotProduct, norm1, norm2) ==
    IF norm1 = 0 \/ norm2 = 0 THEN Zero
    ELSE [num |-> dotProduct, rad |-> norm1 * norm2]

cosineSimilarity(vec1, vec2) ==
    IF Len(vec1) # Len(vec2)
    THEN Error("Vectors must have the same length")
    ELSE Quotient(Dot(vec1, vec2), Dot(vec1, vec1), Dot(vec2, vec2))

\* x < y, x = y or x > y for two real numbers: -1, 0 or 1
Sign(n) == IF n < 0 THEN -1 ELSE IF n > 0 THEN 1 ELSE 0

Compare(x, y) ==
    IF Sign(x.num) # Sign(y.num)
    THEN Sign(Sign(x.num) - Sign(y.num))
    ELSE Sign(x.num) * Sign(x.num * x.num * y.rad - y.num * y.num * x.rad)

----------------------------------------------------------------------------
(* Specification of cosineSimilarity: one call on two vectors of up to     *)
(* MaxDim components                                                       *)

MaxDim == 2

Components == {-1, 0, 1, 2}

Vectors == UNION { [1..n -> Components] : n \in 0..MaxDim }

InitCosine ==
    /\ copc = "input"
    /\ cvec1 \in Vectors
    /\ cvec2 \in Vectors
    /\ cosine = Null
    /\ NotCosineOff

\* cosineSimilarity(vec1, vec2)
Cosine ==
    /\ copc = "input"
    /\ cosine' = cosineSimilarity(cvec1, cvec2)
    /\ copc' = "done"
    /\ UNCHANGED <<cvec1, cvec2, notCosine>>

NextCosine == Cosine

SpecCosine == InitCosine /\ [][NextCosine]_vars

----------------------------------------------------------------------------
(* Claims about cosineSimilarity                                           *)

\* C12: cosineSimilarity returns 0 whenever either argument vector has zero
\* norm, for every pair of vectors it is given, and never throws; for all
\* other pairs the result lies in [-1, 1].
C12_CosineTotal ==
    copc = "done" =>
        /\ ~IsError(cosine)
        /\ Dot(cvec1, cvec1) = 0 \/ Dot(cvec2, cvec2) = 0 => cosine = Zero
        /\ cosine.num * cosine.num <= cosine.rad

----------------------------------------------------------------------------
(* semanticSearch (embeddingIndex.js)                                      *)

\* a compare function that sorts by increasing similarity
byIncreasingSimilarity(a, b) == Compare(a.similarity, b.similarity)

\* semanticSearch line 286: (a, b) => b.similarity - a.similarity
bySimilarity(a, b) == Compare(b.similarity, a.similarity)

\* Array.prototype.sort, which is stable: item goes into the sorted array
\* behind every element that the compare function does not put after it
RECURSIVE Insert(_, _)
Insert(sorted, item) ==
    IF sorted = <<>> THEN <<item>>
    ELSE IF bySimilarity(Head(sorted), item) <= 0
         THEN <<Head(sorted)>> \o Insert(Tail(sorted), item)
         ELSE <<item>> \o sorted

\* results.sort((a, b) => b.similarity - a.similarity)
RECURSIVE Sort(_)
Sort(items) ==
    IF items = <<>> THEN <<>>
    ELSE Insert(Sort(SubSeq(items, 1, Len(items) - 1)), items[Len(items)])

\* lines 277-283: { ...item, similarity, embedding: undefined }
Scored(item, similarity) ==
    [symbolId |-> item.symbolId, file |-> item.file, line |-> item.line,
     similarity |-> similarity]

\* lines 276-289 once the similarities are there
TopResults(results, k) ==
    IF \E i \in 1..Len(results) : IsError(results[i].similarity)
    THEN results[CHOOSE i \in 1..Len(results) :
                   /\ IsError(results[i].similarity)
                   /\ \A j \in 1..(i - 1) : ~IsError(results[j].similarity)
                ].similarity
    ELSE Value(Slice(Sort(results), k))

\* semanticSearch(index, query, topK) with generateEmbedding(query) done
semanticSearch(ix, embedding, k) ==
    IF IsError(embedding) THEN embedding
    ELSE TopResults([i \in 1..Len(ix.embeddings) |->
                       Scored(ix.embeddings[i],
                              cosineSimilarity(embedding.value,
                                               ix.embeddings[i].embedding))],
                    k)

----------------------------------------------------------------------------
(* Specification of semanticSearch: one search over an index of up to      *)
(* MaxItems records                                                        *)

MaxItems == 3

\* embeddings of one dimension, the zero vector among them
Embeddings == { <<1, 0>>, <<0, 1>>, <<-1, 0>>, <<1, 1>>, <<0, 0>> }

IndexItem(i, embedding) ==
    [symbolId |-> i, file |-> "f.js", line |-> i, embedding |-> embedding]

SearchIndexes ==
    UNION { { [repoId |-> <<"a", "/", "b">>,
               embeddings |-> [i \in 1..n |-> IndexItem(i, e[i])],
               metadata |-> [totalEmbeddings |-> n, buildTime |-> 1]] :
                e \in [1..n -> Embeddings] } : n \in 0..MaxItems }

InitSearch ==
    /\ sepc = "input"
    /\ searchIndex \in SearchIndexes
    /\ queryEmbedding \in { Value(e) : e \in Embeddings }
                            \cup {Error("embedding failed")}
    /\ topK \in 0..(MaxItems + 1)
    /\ topResults = Null
    /\ NotSearchOff

\* const results = await semanticSearch(index, query, topK)
SemanticSearch ==
    /\ sepc = "input"
    /\ topResults' = semanticSearch(searchIndex, queryEmbedding, topK)
    /\ sepc' = "done"
    /\ UNCHANGED <<searchIndex, queryEmbedding, topK, notSearch>>

NextSearch == SemanticSearch

SpecSearch == InitSearch /\ [][NextSearch]_vars

----------------------------------------------------------------------------
(* Claims about semanticSearch                                             *)

MinOf(a, b) == IF a < b THEN a ELSE b

\* C11: the results semanticSearch returns for k >= 0 are sorted by
\* non-increasing similarity, there are exactly min(k, total) of them, the
\* similarity of the first is >= that of every other, and no record left
\* out is more similar than a record returned.
C11_SearchOrdering ==
    sepc = "done" /\ ~IsError(topResults) =>
        /\ Len(topResults.value) = MinOf(topK, Len(searchIndex.embeddings))
        /\ \A i \in 1..(Len(topResults.value) - 1) :
             Compare(topResults.value[i].similarity,
                     topResults.value[i + 1].similarity) >= 0
        /\ \A i \in 1..Len(topResults.value) :
             Compare(topResults.value[1].similarity,
                     topResults.value[i].similarity) >= 0
        /\ \A i \in 1..Len(topResults.value) :
             \A j \in 1..Len(searchIndex.embeddings) :
               (\A n \in 1..Len(topResults.value) :
                   topResults.value[n].symbolId # j)
               => Compare(topResults.value[i].similarity,
                          cosineSimilarity(queryEmbedding.value,
                              searchIndex.embeddings[j].embedding)) >= 0

\* C11 witness: a search over three records of different similarity, the
\* least similar first in the index, returned the two most similar
C11_Witness ==
    /\ sepc = "done"
    /\ ~IsError(topResults)
    /\ Len(searchIndex.embeddings) = 3
    /\ topK = 2
    /\ Len(topResults.value) = 2
    /\ topResults.value[1].symbolId = 3
    /\ topResults.value[2].symbolId = 2
    /\ Compare(topResults.value[1].similarity,
               topResults.value[2].similarity) > 0

----------------------------------------------------------------------------
(* Claims about a stored index that cannot be parsed, and about the clone  *)

\* C16: a stored index whose content is not valid JSON makes loadIndex
\* raise, while a missing index makes it return null; and a run of
\* runGhostCoder that finds a corrupt stored index for its repoId fails
\* with that error: it never gets past loading, and no run replaces a
\* corrupt file by a rebuilt index.
C16_CorruptIndexFatal ==
    /\ [](\A id \in RepoIds :
            /\ indexDir[sanitizeRepoId(id)] = Corrupt
                 => IsError(loadIndex(indexDir, id))
            /\ indexDir[sanitizeRepoId(id)] = Null
                 => loadIndex(indexDir, id) = Null)
    /\ [](rupc \in {"context", "deliver"}
            => /\ indexDir[sanitizeRepoId(repoId)] # Corrupt
               /\ embeddingIndex # Null)
    /\ [][rupc = "index" /\ indexDir[sanitizeRepoId(repoId)] = Corrupt
            => rupc' = "ended" /\ status' = "error"]_vars
    /\ [][\A name \in IndexFiles :
            indexDir[name] = Corrupt => indexDir'[name] = Corrupt]_vars

\* C16 witness: a run that had committed syntax fixes found the stored
\* index of its repoId corrupt and ended with the error
C16_Witness ==
    /\ rupc = "ended"
    /\ status = "error"
    /\ syntaxFixesBranch
    /\ embeddingIndex = Null
    /\ indexDir[sanitizeRepoId(repoId)] = Corrupt

\* C20: every run of runGhostCoder that cloned the repository into a
\* temporary directory has deleted that directory when the run has ended,
\* on every exit path.
C20_TempDirDeleted == rupc = "ended" => tempRepoPath = FALSE

----------------------------------------------------------------------------
(* Specification of the index store: up to MaxCalls calls of saveIndex,    *)
(* deleteIndex, loadIndex and indexExists, for any of the repositories     *)

MaxCalls == 3

InitStore ==
    /\ stpc = "ready"
    /\ storeDir = [name \in IndexFiles |-> Null]
    /\ storeBefore = storeDir
    /\ storeCall = Null
    /\ storeCalls = 0
    /\ NotStoreOff

StoreCall(op, id, outcome) == [op |-> op, repoId |-> id, outcome |-> outcome]

\* await saveIndex(index, repoId), as buildEmbeddingIndex calls it
SaveIndex ==
    /\ stpc = "ready"
    /\ storeCalls < MaxCalls
    /\ \E id \in RepoIds :
         /\ storeDir' = saveIndex(storeDir, NewIndex(id, storeCalls + 1), id)
         /\ storeCall' = StoreCall("saveIndex", id, Value(Null))
    /\ storeBefore' = storeDir
    /\ storeCalls' = storeCalls + 1
    /\ UNCHANGED <<stpc, notStore>>

\* await deleteIndex(repoId): every error is caught, nothing is thrown
DeleteIndex ==
    /\ stpc = "ready"
    /\ storeCalls < MaxCalls
    /\ \E id \in RepoIds :
         /\ storeDir' = deleteIndex(storeDir, id)
         /\ storeCall' = StoreCall("deleteIndex", id, Value(Null))
    /\ storeBefore' = storeDir
    /\ storeCalls' = storeCalls + 1
    /\ UNCHANGED <<stpc, notStore>>

\* await loadIndex(repoId)
LoadIndex ==
    /\ stpc = "ready"
    /\ storeCalls < MaxCalls
    /\ \E id \in RepoIds :
         storeCall' =
             StoreCall("loadIndex", id,
                       IF IsError(loadIndex(storeDir, id))
                       THEN loadIndex(storeDir, id)
                       ELSE Value(loadIndex(storeDir, id)))
    /\ storeBefore' = storeDir
    /\ storeCalls' = storeCalls + 1
    /\ UNCHANGED <<stpc, storeDir, notStore>>

\* await indexExists(repoId)
IndexExists ==
    /\ stpc = "ready"
    /\ storeCalls < MaxCalls
    /\ \E id \in RepoIds :
         storeCall' = StoreCall("indexExists", id,
                                Value(indexExists(storeDir, id)))
    /\ storeBefore' = storeDir
    /\ storeCalls' = storeCalls + 1
    /\ UNCHANGED <<stpc, storeDir, notStore>>

NextStore ==
    \/ SaveIndex
    \/ DeleteIndex
    \/ LoadIndex
    \/ IndexExists

SpecStore == InitStore /\ [][NextStore]_vars

----------------------------------------------------------------------------
(* Claims about the index store                                            *)

\* C13: deleteIndex completes without error whether or not an index is
\* stored for the repoId, so that two deleteIndex calls in a row both
\* succeed; after any deleteIndex, indexExists(repoId) is false and
\* loadIndex(repoId) returns null, and what loadIndex returns for every
\* other repoId is what it returned before.
C13_DeleteIdempotent ==
    storeCall # Null /\ storeCall.op = "deleteIndex" =>
        /\ ~IsError(storeCall.outcome)
        /\ ~indexExists(storeDir, storeCall.repoId)
        /\ loadIndex(storeDir, storeCall.repoId) = Null
        /\ \A other \in RepoIds \ {storeCall.repoId} :
             loadIndex(storeDir, other) = loadIndex(storeBefore, other)

----------------------------------------------------------------------------
(* Specification of semanticFix on its own: a file that exports one name   *)
(* and another file that imports one name from it                          *)

\* export const <name> = 1;
ExportOf(name) ==
    <<"export", SP, "const", SP, name, SP, "=", SP, "1", ";">>

\* import { <name> } from '<source>';
NamedImportOf(name, source) ==
    <<"import", SP, "{", SP, name, SP, "}", SP, "from", SP,
      "'", source, "'", ";">>

\* import { <first>, <second> } from '<source>';
NamedImportsOf(first, second, source) ==
    <<"import", SP, "{", SP, first, ",", SP, second, SP, "}", SP, "from", SP,
      "'", source, "'", ";">>

\* import <name> from '<source>';
DefaultImportOf(name, source) ==
    <<"import", SP, name, SP, "from", SP, "'", source, "'", ";">>

ExportedNames ==
    {"hp", "hlp", "helper", "utils", "main", "dk", "dowrk", "doWork"}

\* base name of the exporting file -> the specifier that imports from it
Specifiers ==
    [helper |-> "./helper", utils |-> "./utils", doWork |-> "./doWork"]

Exporters ==
    { File(Path(base, ".js"), ExportOf(name)) :
        base \in DOMAIN Specifiers, name \in ExportedNames }

Importers ==
    { File(Path("main", ".js"), c) :
        c \in { NamedImportOf(name, Specifiers[base]) :
                  name \in ExportedNames, base \in DOMAIN Specifiers }
              \cup { DefaultImportOf(name, Specifiers[base]) :
                  name \in ExportedNames, base \in DOMAIN Specifiers }
              \cup { NamedImportsOf(pair[1], pair[2], Specifiers[base]) :
                  pair \in {<<"dowrk", "doWork">>, <<"doWork", "dowrk">>},
                  base \in DOMAIN Specifiers } }

InitNaming ==
    /\ napc = "input"
    /\ exporter \in Exporters
    /\ importer \in Importers
    /\ namingResult = Null
    /\ NotNamingOff

\* semanticFix(content, filePath, allFiles)
SemanticFix ==
    /\ napc = "input"
    /\ namingResult' = semanticFix(exporter.content, exporter.path,
                                   <<importer, exporter>>)
    /\ napc' = "done"
    /\ UNCHANGED <<exporter, importer, notNaming>>

NextNaming == SemanticFix

SpecNaming == InitNaming /\ [][NextNaming]_vars

----------------------------------------------------------------------------
(* Claims about Naming Repair                                              *)

\* C14: when utils.js exports hlp and another file imports { helper } from
\* './utils', semanticFix returns fixed true with the export renamed to
\* helper.
C14_UtilsScenario ==
    /\ napc = "done"
    /\ exporter = File(Path("utils", ".js"), ExportOf("hlp"))
    /\ importer.content = NamedImportOf("helper", "./utils")
    => /\ namingResult.fixed = TRUE
       /\ namingResult.content = ExportOf("helper")

\* C14, as the code has it: when helper.js exports hp and another file
\* imports { helper } from './helper', semanticFix returns fixed true with
\* the export renamed to helper; when the export is hlp, whose similarity to
\* helper is exactly 0.5, or the file is utils.js, which helper is not
\* similar to, semanticFix returns fixed false and the content as it was.
C14_HelperScenario ==
    napc = "done" /\ exporter.content \in {ExportOf("hp"), ExportOf("hlp")}
        /\ importer.content = NamedImportOf("helper",
                                            Specifiers[exporter.path.base])
    => IF exporter = File(Path("helper", ".js"), ExportOf("hp"))
       THEN /\ namingResult.fixed = TRUE
            /\ namingResult.content = ExportOf("helper")
            /\ namingResult.fixes = <<"export-name-typo">>
       ELSE /\ namingResult.fixed = FALSE
            /\ namingResult.content = exporter.content

\* helper.js exporting hp has been repaired
C14_Witness ==
    /\ napc = "done"
    /\ importer.content = NamedImportOf("helper", "./helper")
    /\ exporter = File(Path("helper", ".js"), ExportOf("hp"))
    /\ namingResult.fixed

\* the flags detectExportNameTypos raises before it removes duplicates
RaisedFlags ==
    TyposOf(ExportsOf(exporter.content, 1),
            findImportAttempts(exporter.path, <<importer, exporter>>, 1),
            exporter.path)

\* the flags detectExportNameTypos returns
KeptFlags ==
    detectExportNameTypos(exporter.content, exporter.path,
                          <<importer, exporter>>)

\* two flags of the same (original, suggested) pair
SamePair(typo, other) ==
    /\ CharsOf(typo.original) = CharsOf(other.original)
    /\ CharsOf(typo.suggested) = CharsOf(other.suggested)

\* of the flags raised with the same pair, the one returned is of the
\* highest confidence, and one is returned for every pair raised
HighestKept(raised, flags) ==
    /\ \A i, j \in 1..Len(flags) : i # j => ~SamePair(flags[i], flags[j])
    /\ \A k \in 1..Len(flags) :
        /\ \E r \in 1..Len(raised) : raised[r] = flags[k]
        /\ \A r \in 1..Len(raised) :
            SamePair(raised[r], flags[k]) /\ raised[r].confidence = "high"
                => flags[k].confidence = "high"
    /\ \A r \in 1..Len(raised) :
        \E k \in 1..Len(flags) : SamePair(raised[r], flags[k])

\* the export name is rewritten only to the name a flag of confidence
\* high suggests; without such a flag the result is fixed false with the
\* content given
OnlyHighApplied(flags, result) ==
    /\ result.content # exporter.content =>
        /\ result.fixed
        /\ \E k \in 1..Len(flags) :
            /\ flags[k].confidence = "high"
            /\ ExportOf(flags[k].original[1]) = exporter.content
            /\ result.content = ExportOf(flags[k].suggested[1])
    /\ (\A k \in 1..Len(flags) : flags[k].confidence = "medium") =>
        /\ result.fixed = FALSE
        /\ result.content = exporter.content

\* C24: Naming Repair rewrites an export name only for a flag of confidence
\* high: a file whose only flags have confidence medium is returned with
\* fixed false and its content unchanged; and of the flags with the same
\* (original, suggested) pair only the one of the highest confidence
\* survives the removal of duplicates.
C24_OnlyHighRewrites ==
    napc = "done" =>
        /\ OnlyHighApplied(KeptFlags, namingResult)
        /\ HighestKept(RaisedFlags, KeptFlags)

\* doWork.js exports dowrk and is imported as doWork: one flag, of
\* confidence medium, and the file is left as it is
C24_MediumWitness ==
    /\ napc = "done"
    /\ exporter = File(Path("doWork", ".js"), ExportOf("dowrk"))
    /\ importer.content = NamedImportOf("doWork", "./doWork")
    /\ Len(KeptFlags) = 1
    /\ KeptFlags[1].confidence = "medium"
    /\ namingResult.fixed = FALSE
    /\ namingResult.content = exporter.content

\* doWork.js exports dk and is imported as dowrk and doWork: the medium
\* flag dk -> doWork raised for dowrk gives way to the high flag raised for
\* doWork
C24_Witness ==
    /\ napc = "done"
    /\ exporter = File(Path("doWork", ".js"), ExportOf("dk"))
    /\ importer.content = NamedImportsOf("dowrk", "doWork", "./doWork")
    /\ Len(RaisedFlags) = 4 /\ Len(KeptFlags) = 2
    /\ RaisedFlags[2].confidence = "medium"
    /\ SamePair(RaisedFlags[2], RaisedFlags[3])
    /\ KeptFlags[2] = RaisedFlags[3]
    /\ KeptFlags[2].confidence = "high"
    /\ namingResult.fixed

----------------------------------------------------------------------------
(* retrieveContext (contextRetriever.js)                                   *)

\* what fs.readFile throws for: the file is not there or cannot be read
Unreadable == Error("ENOENT: no such file or directory")

\* const contextLines = 5
contextLines == 5

RECURSIVE NumberedLines(_, _, _, _)
\* the for loop over i of extractRelevantSnippets: `${i + 1}: ${lines[i]}\n`
\* for the lines of startLine..endLine - 1 not yet added (i is 0-based)
NumberedLines(lines, i, endLine, addedLines) ==
    IF i >= endLine THEN <<>>
    ELSE (IF i \notin addedLines
          THEN << [number |-> i + 1, text |-> lines[i + 1]] >> ELSE <<>>)
         \o NumberedLines(lines, i + 1, endLine, addedLines)

RECURSIVE SnippetsOf(_, _, _)
\* the loop of extractRelevantSnippets over relevantSymbols.slice(0, 5)
SnippetsOf(lines, symbols, addedLines) ==
    IF symbols = <<>> THEN <<>>
    ELSE IF Head(symbols).line = 0
    THEN SnippetsOf(lines, Tail(symbols), addedLines)
    ELSE LET startLine == MaxOf(0, Head(symbols).line - contextLines - 1)
             endLine == MinOf(Len(lines), Head(symbols).line + contextLines)
             snippet == NumberedLines(lines, startLine, endLine, addedLines)
         IN  (IF snippet # <<>>
              THEN << [symbolName |-> Head(symbols).symbolName,
                       line |-> Head(symbols).line, code |-> snippet] >>
              ELSE <<>>)
             \o SnippetsOf(lines, Tail(symbols),
                           addedLines \cup (startLine..(endLine - 1)))

\* the snippets of every record given
extractEverySnippet(c, relevantSymbols) ==
    SnippetsOf(Split(c), relevantSymbols, {})

\* extractRelevantSnippets(content, relevantSymbols)
extractRelevantSnippets(c, relevantSymbols) ==
    SnippetsOf(Split(c), Slice(relevantSymbols, 5), {})

\* buildFileContext(filePath, relevantSymbols, symbolGraph, repoPath,
\* includeFullContent), with what fs.readFile gave: the content or an error
buildFileContext(path, relevantSymbols, symbolGraph, read, full) ==
    [path |-> path,
     language |-> IF path \in DOMAIN symbolGraph.files
                  THEN symbolGraph.files[path].language ELSE "unknown",
     relevantSymbols |->
        [i \in 1..Len(relevantSymbols) |->
            [name |-> relevantSymbols[i].symbolName,
             type |-> relevantSymbols[i].symbolType,
             line |-> relevantSymbols[i].line,
             similarity |-> relevantSymbols[i].similarity,
             documentation |-> relevantSymbols[i].documentation,
             signature |-> relevantSymbols[i].signature]],
     imports |-> IF path \in DOMAIN symbolGraph.files
                 THEN symbolGraph.files[path].imports ELSE <<>>,
     exports |-> IF path \in DOMAIN symbolGraph.files
                 THEN symbolGraph.files[path].exports ELSE <<>>,
     snippet |-> IF IsError(read) \/ full THEN Null
                 ELSE extractRelevantSnippets(read.value, relevantSymbols),
     fullContent |-> IF IsError(read) \/ ~full THEN Null
                     ELSE read.value]

RECURSIVE GroupByFile(_, _)
\* step 2: fileGroups, a Map in insertion order, as <<file, results>> pairs
GroupByFile(results, fileGroups) ==
    IF results = <<>> THEN fileGroups
    ELSE GroupByFile(Tail(results),
            IF \E i \in 1..Len(fileGroups) : fileGroups[i][1] = Head(results).file
            THEN [i \in 1..Len(fileGroups) |->
                    IF fileGroups[i][1] = Head(results).file
                    THEN <<fileGroups[i][1], Append(fileGroups[i][2], Head(results))>>
                    ELSE fileGroups[i]]
            ELSE Append(fileGroups, <<Head(results).file, <<Head(results)>> >>))

RECURSIVE SortByCountDesc(_)
\* step 3: .sort((a, b) => b[1].length - a[1].length), a stable sort
SortByCountDesc(entries) ==
    IF entries = <<>> THEN <<>>
    ELSE LET rest == SortByCountDesc(SubSeq(entries, 1, Len(entries) - 1))
             e == entries[Len(entries)]
             k == Cardinality({i \in 1..Len(rest) :
                                  Len(rest[i][2]) >= Len(e[2])})
         IN  SubSeq(rest, 1, k) \o <<e>> \o SubSeq(rest, k + 1, Len(rest))

\* the characters of a file path of the clone
PathChars(path) == BaseName(path)

RECURSIVE FilterEdges(_, _)
\* symbolGraph.edges.filter(e => e.from.includes(file.path)
\*                               && e.type === 'imports')
FilterEdges(edges, path) ==
    IF edges = <<>> THEN <<>>
    ELSE (IF Includes(Head(edges).from, PathChars(path))
             /\ Head(edges).type = "imports"
          THEN <<Head(edges)>> ELSE <<>>)
         \o FilterEdges(Tail(edges), path)

\* buildDependencyGraph(relevantFiles, symbolGraph)
buildDependencyGraph(relevantFiles, symbolGraph) ==
    Flatten([f \in 1..Len(relevantFiles) |->
        Flatten([n \in 1..Len(relevantFiles[f].imports) |->
            [e \in 1..Len(FilterEdges(symbolGraph.edges, relevantFiles[f].path)) |->
                [from |-> relevantFiles[f].path,
                 to |-> FilterEdges(symbolGraph.edges, relevantFiles[f].path)[e].to,
                 type |-> "imports",
                 symbol |-> relevantFiles[f].imports[n]]]])])

RECURSIVE findReferences(_, _)
\* findReferences(graph, symbolName) of symbolGraph.js, over the edges
findReferences(edges, symbolName) ==
    IF edges = <<>> THEN <<>>
    ELSE (IF Includes(Head(edges).to, CharsOf(<<symbolName>>))
             \/ Includes(Head(edges).from, CharsOf(<<symbolName>>))
          THEN <<Head(edges)>> ELSE <<>>)
         \o findReferences(Tail(edges), symbolName)

\* the references of one symbol that buildCallGraph adds
CallsOf(symbol, references) ==
    IF symbol.symbolType \in {"function", "method"}
    THEN [r \in 1..Len(references) |->
            [caller |-> references[r].from, callee |-> references[r].to,
             symbolName |-> symbol.symbolName]]
    ELSE <<>>

\* buildCallGraph(relevantSymbols, symbolGraph)
buildCallGraph(relevantSymbols, symbolGraph) ==
    Flatten([s \in 1..Len(relevantSymbols) |->
        CallsOf(relevantSymbols[s],
                Slice(findReferences(symbolGraph.edges,
                                     relevantSymbols[s].symbolName), 5))])

\* steps 5 to 7 of retrieveContext
ContextOf(relevantFiles, relevantSymbols, symbolGraph) ==
    [relevantFiles |-> relevantFiles,
     relevantSymbols |-> relevantSymbols,
     callGraph |-> buildCallGraph(relevantSymbols, symbolGraph),
     dependencies |-> buildDependencyGraph(relevantFiles, symbolGraph),
     summary |-> SummaryOf(relevantFiles, relevantSymbols)]

\* step 4 of retrieveContext over sortedFiles
BuiltFiles(sorted, symbolGraph, files, includeFullFiles) ==
    [i \in 1..Len(sorted) |->
        buildFileContext(sorted[i][1], sorted[i][2], symbolGraph,
                         files[sorted[i][1]], includeFullFiles)]

\* the first maxFiles entries of the Map, unsorted
firstFiles(fileGroups, maxFiles) == Slice(fileGroups, maxFiles)

\* step 3: the entries of fileGroups sorted by number of results, the
\* first maxFiles of them
sortedFiles(fileGroups, maxFiles) ==
    Slice(SortByCountDesc(fileGroups), maxFiles)

\* steps 4 to 7 of retrieveContext
ContextFor(sorted, symbolGraph, files, includeFullFiles) ==
    ContextOf(BuiltFiles(sorted, symbolGraph, files, includeFullFiles),
              Flatten([i \in 1..Len(sorted) |-> sorted[i][2]]),
              symbolGraph)

\* retrieveContext(index, symbolGraph, repoPath, options), with what
\* semanticSearch(index, query, maxSymbols) gave and the files of repoPath
retrieveContext(search, symbolGraph, files, options) ==
    IF IsError(search) THEN search
    ELSE Value(ContextFor(sortedFiles(GroupByFile(search.value, <<>>),
                                      options.maxFiles),
                          symbolGraph, files, options.includeFullFiles))

----------------------------------------------------------------------------
(* Specification of retrieveContext: one call on the results of a search   *)
(* of up to MaxHits records over a clone of three files, any of which may  *)
(* be unreadable                                                           *)

MaxHits == 3

HelperPath == Path("helper", ".js")
ScenarioPath == Path("scenario", ".js")
MainPath == Path("main", ".js")

\* a record of semanticSearch (the embedding is stripped)
Hit(name, type, file, line, similarity) ==
    [symbolName |-> name, symbolType |-> type, file |-> file, line |-> line,
     similarity |-> similarity, documentation |-> Null, signature |-> Null]

Hits ==
    { Hit("helper", "function", HelperPath, 1, 900),
      Hit("helper", "export", HelperPath, 1, 800),
      Hit("doWork", "method", ScenarioPath, 2, 700),
      Hit("main.js", "file", MainPath, 0, 600) }

SearchOutcomes ==
    { Value(h) : h \in UNION { [1..n -> Hits] : n \in 0..MaxHits } }
    \cup { Error("Failed to load embedding model") }

\* the symbol graph of the clone, as buildSymbolGraph leaves it
RetrievalGraph ==
    [files |->
        (HelperPath :> [language |-> "javascript", imports |-> <<>>,
                        exports |-> <<"helper">>])
        @@ (ScenarioPath :> [language |-> "javascript", imports |-> <<>>,
                             exports |-> <<"helper">>])
        @@ (MainPath :> [language |-> "javascript", imports |-> <<"helper">>,
                         exports |-> <<>>]),
     \* the edge of buildEdges: `${filePath}::${imp.name}` to
     \* `${imp.from}::${imp.name}`
     edges |-> << [from |-> PathChars(MainPath) \o <<":", ":">> \o Chars("helper"),
                   to |-> Chars("./helper") \o <<":", ":">> \o Chars("helper"),
                   type |-> "imports"] >>]

Disks ==
    { (HelperPath :> h) @@ (ScenarioPath :> s) @@ (MainPath :> m) :
        h \in {Value(HelperJsRenamed), Unreadable},
        s \in {Value(ScenarioJsRepaired), Unreadable},
        m \in {Value(MainJs), Unreadable} }

InitRetrieve ==
    /\ rtpc = "input"
    /\ searchOutcome \in SearchOutcomes
    /\ disk \in Disks
    /\ retrieveOptions \in [maxFiles : {1, 10}, includeFullFiles : BOOLEAN]
    /\ retrieved = Null
    /\ NotRetrieveOff

\* retrieveContext(index, symbolGraph, repoPath, options)
RetrieveContext ==
    /\ rtpc = "input"
    /\ retrieved' = retrieveContext(searchOutcome, RetrievalGraph, disk,
                                    retrieveOptions)
    /\ rtpc' = "done"
    /\ UNCHANGED <<searchOutcome, disk, retrieveOptions, notRetrieve>>

NextRetrieve == RetrieveContext

SpecRetrieve == InitRetrieve /\ [][NextRetrieve]_vars

----------------------------------------------------------------------------
(* Claims about retrieveContext                                            *)

\* C15: when a file selected by retrieval cannot be read from disk,
\* retrieveContext still returns, and the bundle holds neither that file
\* among its relevantFiles nor symbols of that file among its
\* relevantSymbols: only readable files appear.
C15_UnreadableOmitted ==
    rtpc = "done" /\ ~IsError(searchOutcome) =>
        /\ ~IsError(retrieved)
        /\ \A i \in 1..Len(retrieved.value.relevantFiles) :
              disk[retrieved.value.relevantFiles[i].path] # Unreadable
        /\ \A i \in 1..Len(retrieved.value.relevantSymbols) :
              disk[retrieved.value.relevantSymbols[i].file] # Unreadable

\* the number of search records of one file
HitCount(hits, file) ==
    Cardinality({i \in 1..Len(hits) : hits[i].file = file})

\* the paths of the file contexts
KeptPaths(relevantFiles) ==
    {relevantFiles[i].path : i \in 1..Len(relevantFiles)}

\* C23: retrieveContext groups the search results by file and keeps at
\* most maxFiles distinct files, in order of non-increasing number of
\* matched symbols; no file left out has more matched symbols than a file
\* kept, and relevantSymbols holds exactly the matched symbols of the kept
\* files.
C23_MostMatchedKept ==
    rtpc = "done" /\ ~IsError(searchOutcome) =>
        /\ ~IsError(retrieved)
        /\ Len(retrieved.value.relevantFiles) <= retrieveOptions.maxFiles
        /\ \A i, j \in 1..Len(retrieved.value.relevantFiles) :
            /\ i # j => retrieved.value.relevantFiles[i].path
                            # retrieved.value.relevantFiles[j].path
            /\ i < j =>
                HitCount(searchOutcome.value,
                         retrieved.value.relevantFiles[i].path)
                >= HitCount(searchOutcome.value,
                            retrieved.value.relevantFiles[j].path)
        /\ \A i \in 1..Len(retrieved.value.relevantFiles) :
            /\ Len(retrieved.value.relevantFiles[i].relevantSymbols)
                = HitCount(searchOutcome.value,
                           retrieved.value.relevantFiles[i].path)
            /\ HitCount(searchOutcome.value,
                        retrieved.value.relevantFiles[i].path) > 0
            /\ \A h \in 1..Len(searchOutcome.value) :
                searchOutcome.value[h].file
                    \notin KeptPaths(retrieved.value.relevantFiles)
                => HitCount(searchOutcome.value, searchOutcome.value[h].file)
                    <= HitCount(searchOutcome.value,
                                retrieved.value.relevantFiles[i].path)
        /\ \A file \in KeptPaths(retrieved.value.relevantFiles) :
            HitCount(retrieved.value.relevantSymbols, file)
                = HitCount(searchOutcome.value, file)
        /\ \A s \in 1..Len(retrieved.value.relevantSymbols) :
            /\ retrieved.value.relevantSymbols[s].file
                \in KeptPaths(retrieved.value.relevantFiles)
            /\ \E h \in 1..Len(searchOutcome.value) :
                searchOutcome.value[h] = retrieved.value.relevantSymbols[s]

\* of two files found, the one found first has one matched symbol and the
\* other two, and maxFiles 1 keeps the other
C23_Witness ==
    /\ rtpc = "done" /\ ~IsError(searchOutcome)
    /\ retrieveOptions.maxFiles = 1
    /\ Len(searchOutcome.value) = 3
    /\ searchOutcome.value[1].file # searchOutcome.value[2].file
    /\ searchOutcome.value[2].file = searchOutcome.value[3].file
    /\ searchOutcome.value[2] # searchOutcome.value[3]
    /\ Len(retrieved.value.relevantFiles) = 1
    /\ retrieved.value.relevantFiles[1].path = searchOutcome.value[2].file
    /\ Len(retrieved.value.relevantSymbols) = 2

----------------------------------------------------------------------------
(* buildEmbeddingIndex (embeddingIndex.js).  The symbol graph holds its    *)
(* symbols and files as sequences of <<key, value>> entries, in the order  *)
(* Object.entries gives them.  A file path is [dir, base].                 *)

\* the path as text
PathText(file) == file.dir \o "/" \o file.base

\* createSymbolText(symbol): the parts pushed, joined by a blank
createSymbolText(symbol) ==
    JoinWith(<<symbol.type \o " " \o symbol.name>>
             \o (IF symbol.signature # "" THEN <<symbol.signature>> ELSE <<>>)
             \o (IF Len(symbol.params) > 0
                 THEN <<"parameters: " \o JoinWith(symbol.params, ", ")>>
                 ELSE <<>>)
             \o (IF symbol.documentation # ""
                 THEN <<symbol.documentation>> ELSE <<>>)
             \o <<"in " \o symbol.file.dir \o "/" \o symbol.file.base>>
             \o (IF symbol.className # ""
                 THEN <<"method of class " \o symbol.className>> ELSE <<>>),
             " ")

RECURSIVE SymbolsIn(_, _)
\* Object.values(symbolGraph.symbols).filter(s => s.file === fileInfo.path)
SymbolsIn(entries, file) ==
    IF entries = <<>> THEN <<>>
    ELSE (IF Head(entries)[2].file = file
          THEN <<Head(entries)[2].name>> ELSE <<>>)
         \o SymbolsIn(Tail(entries), file)

\* createFileText(fileInfo, symbolGraph)
createFileText(fileInfo, symbolGraph) ==
    JoinWith(<<PathText(fileInfo.path), fileInfo.language \o " file">>
             \o (IF Len(fileInfo.imports) > 0
                 THEN <<"imports: " \o JoinWith(Slice(fileInfo.imports, 10), ", ")>>
                 ELSE <<>>)
             \o (IF Len(fileInfo.exports) > 0
                 THEN <<"exports: " \o JoinWith(Slice(fileInfo.exports, 10), ", ")>>
                 ELSE <<>>)
             \o (IF SymbolsIn(symbolGraph.symbols, fileInfo.path) # <<>>
                 THEN <<"contains: "
                        \o JoinWith(Slice(SymbolsIn(symbolGraph.symbols,
                                                    fileInfo.path), 10), ", ")>>
                 ELSE <<>>),
             " ")

\* a loop body that pushes a record without an embedding when
\* generateEmbedding throws
SymbolRecordOrBlank(symbolId, symbol, textToEmbed, embedding) ==
    << [id |-> symbolId, symbolName |-> symbol.name,
        symbolType |-> symbol.type, file |-> symbol.file,
        line |-> symbol.line,
        embedding |-> IF IsError(embedding) THEN Null ELSE embedding.value,
        text |-> textToEmbed] >>

\* the body of the loop over the symbols (lines 101-125): the records
\* pushed, none when generateEmbedding throws
SymbolRecord(symbolId, symbol, textToEmbed, embedding) ==
    IF IsError(embedding) THEN <<>>
    ELSE << [id |-> symbolId, symbolName |-> symbol.name,
             symbolType |-> symbol.type, file |-> symbol.file,
             line |-> symbol.line, embedding |-> embedding.value,
             text |-> textToEmbed] >>

\* the body of the loop over the files (lines 128-147)
FileRecord(path, fileInfo, fileText, embedding) ==
    IF IsError(embedding) THEN <<>>
    ELSE << [id |-> "file::" \o PathText(path), symbolName |-> path.base,
             symbolType |-> "file", file |-> path, line |-> 0,
             embedding |-> embedding.value, text |-> fileText] >>

\* the two loops of buildEmbeddingIndex; embed maps a text to what
\* generateEmbedding returns or throws for it
EmbeddingsOf(symbolGraph, embed) ==
    Flatten([i \in 1..Len(symbolGraph.symbols) |->
                SymbolRecord(symbolGraph.symbols[i][1],
                             symbolGraph.symbols[i][2],
                             createSymbolText(symbolGraph.symbols[i][2]),
                             embed[createSymbolText(symbolGraph.symbols[i][2])])])
    \o
    Flatten([i \in 1..Len(symbolGraph.files) |->
                FileRecord(symbolGraph.files[i][1], symbolGraph.files[i][2],
                           createFileText(symbolGraph.files[i][2], symbolGraph),
                           embed[createFileText(symbolGraph.files[i][2],
                                                symbolGraph)])])

\* the index as line 149 leaves it
IndexOf(id, embeddings) ==
    [repoId |-> id, embeddings |-> embeddings,
     metadata |-> [totalEmbeddings |-> Len(embeddings), buildTime |-> 1,
                   model |-> "Xenova/all-MiniLM-L6-v2"]]

\* buildEmbeddingIndex(symbolGraph, repoId): what it returns or throws
buildEmbeddingIndex(symbolGraph, id, embed, env) ==
    IF ~env.loads THEN Error("Failed to load embedding model")
    ELSE IF ~env.writable THEN Error("EACCES: permission denied")
    ELSE Value(IndexOf(id, EmbeddingsOf(symbolGraph, embed)))

----------------------------------------------------------------------------
(* Specification of buildEmbeddingIndex: one build over a graph of up to   *)
(* MaxEmbedFiles files and MaxEmbedSymbols symbols, where the embedding    *)
(* model may fail on any of the texts                                      *)

MaxEmbedFiles == 2
MaxEmbedSymbols == 2

EmbedPath(j) == [dir |-> "src", base |-> "f" \o ToString(j) \o ".js"]

\* symbol i of a graph of nf files
EmbedSymbol(i, nf) ==
    [name |-> "g" \o ToString(i), type |-> "function",
     signature |-> IF i = 1 THEN "function g1(x)" ELSE "",
     params |-> IF i = 1 THEN <<"x">> ELSE <<>>,
     documentation |-> "", className |-> "",
     file |-> EmbedPath(((i - 1) % nf) + 1), line |-> i]

EmbedFileInfo(j) ==
    [path |-> EmbedPath(j), language |-> "javascript",
     imports |-> <<>>, exports |-> <<"g" \o ToString(j)>>, symbolCount |-> 1]

EmbedGraphOf(ns, nf) ==
    [symbols |-> [i \in 1..ns |->
                    <<PathText(EmbedPath(((i - 1) % nf) + 1)) \o "::g"
                      \o ToString(i), EmbedSymbol(i, nf)>>],
     files |-> [j \in 1..nf |-> <<EmbedPath(j), EmbedFileInfo(j)>>]]

EmbedGraphs ==
    { EmbedGraphOf(ns, nf) : ns \in 0..MaxEmbedSymbols, nf \in 1..MaxEmbedFiles }
    \cup { [symbols |-> <<>>, files |-> <<>>] }

\* the texts buildEmbeddingIndex asks an embedding for
TextsOf(symbolGraph) ==
    { createSymbolText(symbolGraph.symbols[i][2]) :
        i \in 1..Len(symbolGraph.symbols) }
    \cup { createFileText(symbolGraph.files[i][2], symbolGraph) :
        i \in 1..Len(symbolGraph.files) }

EmbedOutcomes ==
    { Value(<<1, 0>>), Value(<<0, 1>>), Error("Failed to generate embedding") }

InitEmbed ==
    /\ embpc = "input"
    /\ embedGraph \in EmbedGraphs
    /\ embedOutcome \in [TextsOf(embedGraph) -> EmbedOutcomes]
    /\ embedEnv \in [loads : BOOLEAN, writable : BOOLEAN]
    /\ embedDir = [name \in IndexFiles |-> Null]
    /\ built = Null
    /\ NotEmbedOff

\* buildEmbeddingIndex(symbolGraph, repoId) for the repository a/b
BuildEmbeddingIndex ==
    /\ embpc = "input"
    /\ \E r \in {buildEmbeddingIndex(embedGraph, <<"a", "/", "b">>,
                                     embedOutcome, embedEnv)} :
          /\ built' = r
          /\ embedDir' = IF IsError(r) THEN embedDir
                         ELSE saveIndex(embedDir, r.value, <<"a", "/", "b">>)
    /\ embpc' = "done"
    /\ UNCHANGED <<embedGraph, embedOutcome, embedEnv, notEmbed>>

NextEmbed == BuildEmbeddingIndex

SpecEmbed == InitEmbed /\ [][NextEmbed]_vars

----------------------------------------------------------------------------
(* Claims about buildEmbeddingIndex                                        *)

\* the ids of the symbols and files whose text the model embedded
Embedded(symbolGraph, embed) ==
    { symbolGraph.symbols[i][1] :
        i \in { k \in 1..Len(symbolGraph.symbols) :
                  ~IsError(embed[createSymbolText(symbolGraph.symbols[k][2])]) } }
    \cup
    { "file::" \o PathText(symbolGraph.files[i][1]) :
        i \in { k \in 1..Len(symbolGraph.files) :
                  ~IsError(embed[createFileText(symbolGraph.files[k][2],
                                                symbolGraph)]) } }

\* C17: whichever symbols and files the embedding function fails for, a
\* build whose model loaded and whose index file can be written returns and
\* stores an index that holds exactly one record for each symbol and file
\* that was embedded and none for the others, with metadata.totalEmbeddings
\* equal to the number of records; with no failure that number is
\* |symbols| + |files|.
C17_FailuresSkipped ==
    embpc = "done" /\ embedEnv.loads /\ embedEnv.writable =>
        /\ ~IsError(built)
        /\ embedDir[sanitizeRepoId(<<"a", "/", "b">>)] = built.value
        /\ { built.value.embeddings[i].id :
               i \in 1..Len(built.value.embeddings) }
           = Embedded(embedGraph, embedOutcome)
        /\ Len(built.value.embeddings)
           = Cardinality(Embedded(embedGraph, embedOutcome))
        /\ built.value.metadata.totalEmbeddings = Len(built.value.embeddings)
        /\ (\A t \in DOMAIN embedOutcome : ~IsError(embedOutcome[t]))
           => Len(built.value.embeddings)
              = Len(embedGraph.symbols) + Len(embedGraph.files)

\* an index has been stored after the model failed for some texts and
\* succeeded for others
C17_Witness ==
    /\ embpc = "done"
    /\ ~IsError(built)
    /\ embedDir[sanitizeRepoId(<<"a", "/", "b">>)] = built.value
    /\ \E t \in DOMAIN embedOutcome : IsError(embedOutcome[t])
    /\ Len(built.value.embeddings) > 0
    /\ Len(built.value.embeddings)
       < Len(embedGraph.symbols) + Len(embedGraph.files)

----------------------------------------------------------------------------
(* smartFix on a content that is not a string: the steps of                *)
(* attemptSyntaxFix run inside one try block (lines 567-743)               *)

\* the value undefined, handed over as content
Undefined == [typeof |-> "undefined"]

\* an attemptSyntaxFix whose catch block throws the error on
Rethrown(c, message) == Error(message)

\* the catch block of attemptSyntaxFix (lines 739-742): the message is
\* recorded and the result is returned as it was initialised (lines 558-564)
Caught(c, message) ==
    [fixed |-> FALSE, content |-> c, errors |-> <<message>>, fixes |-> <<>>,
     shouldCommit |-> FALSE]

\* smartFix(content, filePath, parseError) where content is a string, held
\* as Value(string), or undefined: detectSyntaxErrors catches the TypeError
\* of its for...of loop; in attemptSyntaxFix the pattern of fix 1 does not
\* match the text "undefined" and fixedContent.split of fix 2 throws
smartFixAny(c, ext) ==
    IF c = Undefined
    THEN Caught(c, "Cannot read properties of undefined (reading 'split')")
    ELSE smartFix(c.value, ext)

----------------------------------------------------------------------------
(* Specification of smartFix on any content: a string of up to MaxFixLines *)
(* lines, or undefined                                                     *)

MaxFixLines == 2

FixInputs ==
    { Value(Join(ls)) :
        ls \in UNION { [1..n -> SourceLines] : n \in 1..MaxFixLines } }
    \cup { Undefined }

InitSmart ==
    /\ sfpc = "input"
    /\ given \in FixInputs
    /\ givenPath \in Extensions
    /\ smartResult = Null
    /\ NotSmartOff

\* smartFix(content, filePath, parseError)
SmartFix ==
    /\ sfpc = "input"
    /\ smartResult' = smartFixAny(given, givenPath)
    /\ sfpc' = "done"
    /\ UNCHANGED <<given, givenPath, notSmart>>

NextSmart == SmartFix

SpecSmart == InitSmart /\ [][NextSmart]_vars

----------------------------------------------------------------------------
(* Claims about smartFix on any content                                    *)

----------------------------------------------------------------------------
(* Claims about the two phases of buildSymbolGraph                         *)

\* the Symbol Extractor has run on a file
ExtractorRan == parse # IdleParse \/ graph # EmptyGraph

\* every file Naming Repair changed holds the repaired content in its
\* record; helper.js (or helper.go) exporting hp, with main.js of the
\* repository importing { helper } from it, holds the export renamed
RepairedContentStored ==
    \A i \in 1..Len(codeFiles) :
        /\ codeFiles[i].path \in DOMAIN semanticFixResults =>
              codeFiles[i].content
                = semanticFixResults[codeFiles[i].path].content
        /\ (/\ codeFiles[i].path.base = "helper"
            /\ \E j \in 1..Len(allRepoFiles) : allRepoFiles[j] = Catalogue[1])
           => codeFiles[i].content = HelperJsRenamed

\* C19: buildSymbolGraph runs in two phases in order. Phase 1 (Naming
\* Repair) starts at the first file, takes the files one by one and hands
\* over to phase 2 only after the last; the Symbol Extractor has run on no
\* file before that; and from then on every file record holds the content
\* Naming Repair gave it, which is the content the extractor is given.
C19_PhasesInOrder ==
    /\ [](ExtractorRan => gpc \in {"analyze", "done"})
    /\ [](gpc \in {"analyze", "done"} => RepairedContentStored)
    /\ [][gpc = "scan" => gpc' = "semantic" /\ idx' = 1]_vars
    /\ [][gpc = "semantic" =>
            IF idx < Len(codeFiles)
            THEN gpc' = "semantic" /\ idx' = idx + 1
            ELSE gpc' = "analyze" /\ idx' = 1]_vars

\* the extractor has run on helper.js after Naming Repair renamed its export
C19_Witness ==
    /\ gpc = "analyze"
    /\ idx <= Len(codeFiles)
    /\ parse.pc = "return"
    /\ codeFiles[idx].path \in DOMAIN semanticFixResults
    /\ codeFiles[idx].content = HelperJsRenamed

----------------------------------------------------------------------------
(* The memory store (memoryManager.js).  A store is the object of          *)
(* MEMORY_FILE: a function from the repoIds it has to their entries.       *)

\* acquireLock(retries = 50, delay = 100)
retries == 50

\* an open that takes the file whether or not it exists (flag 'w')
OpenAnyway(exists) == TRUE

\* fs.open(LOCK_FILE, 'wx') (line 35): creates the file and succeeds only
\* if the file does not exist
OpenExclusive(exists) == ~exists

\* a release that leaves the file where it is
releaseLockSkipped(exists) == exists

\* releaseLock (lines 46-52): whether LOCK_FILE exists after fs.unlink
releaseLock(exists) == FALSE

\* array.slice(-n): -0 is 0, so slice(-0) is the whole array
SliceLast(s, n) ==
    IF n = 0 THEN s
    ELSE SubSeq(s, (IF Len(s) > n THEN Len(s) - n + 1 ELSE 1), Len(s))

\* array.reverse()
Reverse(s) == [i \in 1..Len(s) |-> s[Len(s) + 1 - i]]

\* store[repoId] || []
EntriesOf(store, id) == IF id \in DOMAIN store THEN store[id] ELSE <<>>

\* lines 87-89: trim to the most recent maxEntries
Trimmed(list, maxEntries) ==
    IF Len(list) > maxEntries THEN SliceLast(list, maxEntries) ELSE list

\* addToMemory lines 81-89: the store written for the store read; an
\* object without a timestamp gets the time of the call
Added(store, id, memoryObject, maxEntries, now) ==
    MapSet(store, id,
           Trimmed(Append(EntriesOf(store, id),
                          IF memoryObject.timestamp = 0
                          THEN [memoryObject EXCEPT !.timestamp = now]
                          ELSE memoryObject),
                   maxEntries))

\* clearMemory line 121: delete store[repoId]
Cleared(store, id) == [k \in DOMAIN store \ {id} |-> store[k]]

\* the store a call writes for the store it read
Written(call, store) ==
    IF call.op = "addToMemory"
    THEN Added(store, call.repoId, call.memoryObject, call.maxEntries,
               call.memoryObject.id)
    ELSE Cleared(store, call.repoId)

\* getRecentContext lines 103-107
getRecentContext(store, id, limit) ==
    Reverse(SliceLast(EntriesOf(store, id), limit))

----------------------------------------------------------------------------
(* Specification of the memory store: the callers of Callers run           *)
(* addToMemory and clearMemory, MaxMemoryCalls calls in all, interleaved   *)
(* at their awaits; writeMemoryFile may fail                               *)

MaxMemoryCalls == 3

Callers == {1, 2}

MemoryRepoIds == {"a/b", "c/d"}

MaxEntriesGiven == {1, 2}

NoCall == [op |-> "none"]

InitMemory ==
    /\ mpc = [p \in Callers |-> "idle"]
    /\ mcall = [p \in Callers |-> NoCall]
    /\ tries = [p \in Callers |-> 0]
    /\ mstore = [p \in Callers |-> EmptyMap]
    /\ moutcome = [p \in Callers |-> "none"]
    /\ lockFile = FALSE
    /\ memoryFile = EmptyMap
    /\ serial = EmptyMap
    /\ memoryCalls = 0
    /\ NotMemoryOff

\* a call of addToMemory or clearMemory up to acquireLock (lines 76-78,
\* 116-118)
Begin(p, call) ==
    /\ mpc[p] = "idle"
    /\ memoryCalls < MaxMemoryCalls
    /\ memoryCalls' = memoryCalls + 1
    /\ mcall' = [mcall EXCEPT ![p] = call]
    /\ tries' = [tries EXCEPT ![p] = 0]
    /\ moutcome' = [moutcome EXCEPT ![p] = "none"]
    /\ mpc' = [mpc EXCEPT ![p] = "acquire"]
    /\ UNCHANGED <<mstore, lockFile, memoryFile, serial, notMemory>>

\* addToMemory(repoId, memoryObject, maxEntries)
AddToMemory ==
    \E p \in Callers, id \in MemoryRepoIds, maxEntries \in MaxEntriesGiven :
        Begin(p, [op |-> "addToMemory", repoId |-> id,
                  memoryObject |-> [id |-> memoryCalls + 1, timestamp |-> 0],
                  maxEntries |-> maxEntries])

\* clearMemory(repoId)
ClearMemory ==
    \E p \in Callers, id \in MemoryRepoIds :
        Begin(p, [op |-> "clearMemory", repoId |-> id])

\* one pass of the loop of acquireLock (lines 33-42): fs.open(LOCK_FILE,
\* 'wx') creates the file or fails because it exists; after the last pass
\* the call throws (line 43)
TryLock ==
    \E p \in Callers :
        /\ mpc[p] = "acquire"
        /\ IF OpenExclusive(lockFile)
           THEN /\ lockFile' = TRUE
                /\ mpc' = [mpc EXCEPT ![p] = "read"]
                /\ tries' = [tries EXCEPT ![p] = 0]
                /\ UNCHANGED <<moutcome, mcall>>
           ELSE /\ lockFile' = lockFile
                /\ IF tries[p] + 1 < retries
                   THEN /\ tries' = [tries EXCEPT ![p] = @ + 1]
                        /\ UNCHANGED <<mpc, moutcome, mcall>>
                   ELSE /\ tries' = [tries EXCEPT ![p] = 0]
                        /\ mpc' = [mpc EXCEPT ![p] = "idle"]
                        /\ moutcome' = [moutcome EXCEPT ![p] = "threw"]
                        /\ mcall' = [mcall EXCEPT ![p] = NoCall]
        /\ UNCHANGED <<mstore, memoryFile, serial, memoryCalls, notMemory>>

\* const store = await readMemoryFile()
ReadStore ==
    \E p \in Callers :
        /\ mpc[p] = "read"
        /\ mstore' = [mstore EXCEPT ![p] = memoryFile]
        /\ mpc' = [mpc EXCEPT ![p] = "write"]
        /\ UNCHANGED <<mcall, tries, moutcome, lockFile, memoryFile,
                       serial, memoryCalls, notMemory>>

\* the change of the store and await writeMemoryFile(store), which renames
\* the written file into place or throws
WriteStore ==
    \E p \in Callers, written \in BOOLEAN :
        /\ mpc[p] = "write"
        /\ memoryFile' = IF written THEN Written(mcall[p], mstore[p])
                         ELSE memoryFile
        /\ serial' = IF written THEN Written(mcall[p], serial) ELSE serial
        /\ moutcome' = [moutcome EXCEPT
                          ![p] = IF written THEN "returned" ELSE "threw"]
        /\ mpc' = [mpc EXCEPT ![p] = "release"]
        /\ UNCHANGED <<mcall, tries, mstore, lockFile, memoryCalls,
                       notMemory>>

\* finally { await releaseLock() }, and the call returns or throws
ReleaseLock ==
    \E p \in Callers :
        /\ mpc[p] = "release"
        /\ lockFile' = releaseLock(lockFile)
        /\ mpc' = [mpc EXCEPT ![p] = "idle"]
        /\ mcall' = [mcall EXCEPT ![p] = NoCall]
        /\ mstore' = [mstore EXCEPT ![p] = EmptyMap]
        /\ UNCHANGED <<tries, moutcome, memoryFile,
                       serial, memoryCalls, notMemory>>

NextMemory ==
    \/ AddToMemory
    \/ ClearMemory
    \/ TryLock
    \/ ReadStore
    \/ WriteStore
    \/ ReleaseLock

SpecMemory == InitMemory /\ [][NextMemory]_vars

----------------------------------------------------------------------------
(* Claims about the lock of the memory store                               *)

\* the callers between acquireLock and releaseLock
Holders == {p \in Callers : mpc[p] \in {"read", "write", "release"}}

\* C21: with addToMemory and clearMemory calls running concurrently, at
\* most one caller holds the lock file at a time, and no update is lost:
\* the store in the file is always the store that the calls written so far
\* give when they run one after the other, each on the result of the one
\* before.
C21_NoLostUpdate ==
    /\ Cardinality(Holders) <= 1
    /\ Holders # {} => lockFile
    /\ memoryFile = serial

\* a second addToMemory waits for the lock while the first is about to
\* write, after an earlier entry was stored
C21_Witness ==
    \E p, q \in Callers :
        /\ mpc[p] = "write" /\ mcall[p].op = "addToMemory"
        /\ mpc[q] = "acquire" /\ tries[q] > 0
        /\ mcall[q].op = "addToMemory"
        /\ memoryFile # EmptyMap

\* C30: the lock file is absent whenever no addToMemory or clearMemory
\* call is in progress: it exists only while a caller is between
\* acquireLock and releaseLock, also after a write that failed; and a call
\* that gives up after 50 attempts throws and leaves the lock of the other
\* caller in place.
C30_LockReleased ==
    /\ [](lockFile => Holders # {})
    /\ []((\A p \in Callers : mpc[p] = "idle") => ~lockFile)
    /\ [][\A p \in Callers :
            mpc[p] = "acquire" /\ mpc'[p] = "idle" =>
                /\ tries[p] = retries - 1
                /\ moutcome'[p] = "threw"
                /\ lockFile /\ lockFile']_vars

\* a call has thrown after its write failed and the lock file is gone, and
\* the other caller has given up on a lock that is still held
C30_Witness ==
    \E p, q \in Callers :
        /\ p # q
        /\ mpc[p] = "release" /\ moutcome[p] = "threw"
        /\ mpc[q] = "idle" /\ moutcome[q] = "threw"
        /\ lockFile

----------------------------------------------------------------------------
(* Specification of the memory store with one caller: addToMemory calls    *)
(* with one maxEntries, one after the other, and getRecentContext          *)

MaxAdds == 3

\* the values given for maxEntries and for limit
Counts == 0..2

InitRecent ==
    /\ givenMax \in Counts
    /\ kept = EmptyMap
    /\ addedAll = [id \in MemoryRepoIds |-> <<>>]
    /\ adds = 0
    /\ recent = Null
    /\ NotRecentOff

\* await addToMemory(repoId, memoryObject, givenMax), run to its end
AddEntry ==
    \E id \in MemoryRepoIds :
        /\ adds < MaxAdds
        /\ adds' = adds + 1
        /\ kept' = Added(kept, id, [id |-> adds + 1, timestamp |-> 0],
                         givenMax, adds + 1)
        /\ addedAll' = [addedAll EXCEPT ![id] =
                            Append(@, [id |-> adds + 1,
                                       timestamp |-> adds + 1])]
        /\ UNCHANGED <<givenMax, recent, notRecent>>

\* await getRecentContext(repoId, limit)
GetRecentContext ==
    \E id \in MemoryRepoIds, limit \in Counts :
        /\ recent' = [repoId |-> id, limit |-> limit,
                      stored |-> EntriesOf(kept, id),
                      entries |-> getRecentContext(kept, id, limit)]
        /\ UNCHANGED <<givenMax, kept, addedAll, adds, notRecent>>

NextRecent == AddEntry \/ GetRecentContext

SpecRecent == InitRecent /\ [][NextRecent]_vars

\* the last min(n, Len(s)) elements of s
MostRecent(s, n) == SubSeq(s, Len(s) - (IF n < Len(s) THEN n ELSE Len(s)) + 1, Len(s))

\* C22: after any sequence of addToMemory calls the stored list of each
\* repoId holds at most maxEntries entries, the most recently added ones in
\* insertion order, and getRecentContext(repoId, limit) returns the last
\* min(limit, stored) of them, newest first.
C22_MostRecentKept ==
    /\ \A id \in MemoryRepoIds :
        /\ Len(EntriesOf(kept, id)) <= givenMax
        /\ EntriesOf(kept, id) = MostRecent(addedAll[id], givenMax)
    /\ recent # Null =>
        recent.entries = Reverse(MostRecent(recent.stored, recent.limit))

----------------------------------------------------------------------------
(* Specification of extractRelevantSnippets: one call on a file of 3 or of *)
(* MaxFileLines lines and up to MaxMatched records of it                   *)

MaxFileLines == 16

MaxMatched == 6

RECURSIVE Listing(_)
\* a content of n lines, line i holding the text i
Listing(n) ==
    IF n = 1 THEN <<"1">> ELSE Listing(n - 1) \o <<NL, ToString(n)>>

\* the lines of the records: none, near the top, in the middle, and past
\* line MaxFileLines
SymbolLines == {0, 2, 9, MaxFileLines + 4}

SymbolNames == <<"a", "b", "c", "d", "e", "f", "g", "h">>

InitSnippets ==
    /\ snpc = "input"
    /\ listing \in {Listing(3), Listing(MaxFileLines)}
    /\ matched \in
        { [i \in 1..Len(at) |-> Hit(SymbolNames[i], "function", HelperPath,
                              at[i], 900)] :
            at \in UNION { [1..n -> SymbolLines] : n \in 0..MaxMatched } }
    /\ extracted = <<>>
    /\ NotSnippetsOff

\* extractRelevantSnippets(content, relevantSymbols)
ExtractRelevantSnippets ==
    /\ snpc = "input"
    /\ extracted' = extractRelevantSnippets(listing, matched)
    /\ snpc' = "done"
    /\ UNCHANGED <<listing, matched, notSnippets>>

NextSnippets == ExtractRelevantSnippets

SpecSnippets == InitSnippets /\ [][NextSnippets]_vars

\* C25: snippet extraction for one file gives at most 5 snippets, each for
\* one of the first 5 matched symbols and no two for the same one; a
\* snippet holds only lines of the file from 5 lines before to 5 lines
\* after its symbol's line, each with its number; and no line of the file
\* is in two snippets or twice in one.
C25_SnippetWindows ==
    snpc = "done" =>
        /\ Len(extracted) <= 5
        /\ \A k \in 1..Len(extracted) :
            /\ \E i \in 1..MinOf(5, Len(matched)) :
                /\ matched[i].symbolName = extracted[k].symbolName
                /\ matched[i].line = extracted[k].line
            /\ \A j \in 1..Len(extracted) :
                j # k => extracted[j].symbolName # extracted[k].symbolName
            /\ \A n \in 1..Len(extracted[k].code) :
                /\ extracted[k].code[n].number >= extracted[k].line - 5
                /\ extracted[k].code[n].number <= extracted[k].line + 5
                /\ extracted[k].code[n].number \in 1..Len(Split(listing))
                /\ extracted[k].code[n].text
                    = Split(listing)[extracted[k].code[n].number]
                /\ \A j \in 1..Len(extracted) :
                   \A m \in 1..Len(extracted[j].code) :
                    <<j, m>> # <<k, n>> =>
                        extracted[j].code[m].number
                            # extracted[k].code[n].number

\* records at lines 2 and 9 of a file of more than 14 lines: the first
\* snippet is lines 1 to 7, the second is what is left of lines 4 to 14
C25_Witness ==
    /\ snpc = "done"
    /\ Len(Split(listing)) > 14
    /\ Len(matched) = MaxMatched
    /\ Len(extracted) = 2
    /\ extracted[1].line = 2 /\ Len(extracted[1].code) = 7
    /\ extracted[2].line = 9 /\ Len(extracted[2].code) = 7
    /\ extracted[2].code[1].number = 8

----------------------------------------------------------------------------
(* Specification of the delivery of one run of runGhostCoder: from the     *)
(* syntax fixes of the symbol graph (line 131) to the pull request; every  *)
(* call of git, of the GitHub API and of the AI may throw, which ends the  *)
(* run in the catch block.  commitChanges that returns has made a commit   *)
(* on the branch checked out.                                              *)

MaxFixedFiles == 2

MaxImprovements == 3

\* generateBranchName(): a name no branch of the clone has
FreshBranch(branches) == <<"ghostcoder", Cardinality(branches) + 1>>

\* a new branch whatever syntaxFixesBranch holds
freshBranchName(existing, fresh) == fresh

\* line 249: syntaxFixesBranch || await createBranch(tempRepoPath)
branchNameFor(existing, fresh) ==
    IF existing # Null THEN existing ELSE fresh

\* the kinds of the commits made on a branch
CommitsOn(log, branch) ==
    {log[i].kind : i \in {k \in 1..Len(log) : log[k].branch = branch}}

InitDelivery ==
    /\ dvpc = "graph"
    /\ fixCount \in 0..MaxFixedFiles
    /\ fixBranch = Null
    /\ branchName = Null
    /\ suggestions = 0
    /\ applicable = 0
    /\ branchesCreated = {}
    /\ headBranch = <<"base">>
    /\ commitLog = <<>>
    /\ pushLog = <<>>
    /\ pullRequests = <<>>
    /\ runStatus = "none"
    /\ NotDeliveryOff

\* the catch block (lines 361-370): the error is thrown on
Failed ==
    /\ dvpc' = "ended"
    /\ runStatus' = "error"

\* return { ..., status } after deleteDirectory and deleteIndex
Returned(result) ==
    /\ dvpc' = "ended"
    /\ runStatus' = result

\* step 6a (lines 131-150): the fixed files are written, createBranch makes
\* and checks out the branch, commitChanges commits the fixes
CommitSyntaxFixes ==
    /\ dvpc = "graph"
    /\ IF fixCount = 0
       THEN /\ dvpc' = "index"
            /\ UNCHANGED <<fixBranch, branchesCreated, headBranch, commitLog,
                           runStatus>>
       ELSE \E thrower \in {"writeFile", "createBranch", "commitChanges",
                            "none"} :
              IF thrower \in {"writeFile", "createBranch"}
              THEN /\ Failed
                   /\ UNCHANGED <<fixBranch, branchesCreated, headBranch,
                                  commitLog>>
              ELSE /\ branchesCreated' = branchesCreated
                        \cup {FreshBranch(branchesCreated)}
                   /\ headBranch' = FreshBranch(branchesCreated)
                   /\ fixBranch' = FreshBranch(branchesCreated)
                   /\ IF thrower = "commitChanges"
                      THEN Failed /\ UNCHANGED commitLog
                      ELSE /\ commitLog' = Append(commitLog,
                                [branch |-> FreshBranch(branchesCreated),
                                 kind |-> "syntax"])
                           /\ dvpc' = "index"
                           /\ UNCHANGED runStatus
    /\ UNCHANGED <<fixCount, branchName, suggestions, applicable, pushLog,
                   pullRequests, notDelivery>>

\* lines 153-183: the index, the context and analyzeCodeWithAI
AnalyseCode ==
    /\ dvpc = "index"
    /\ \E thrown \in BOOLEAN, found \in 0..MaxImprovements :
         IF thrown
         THEN Failed /\ UNCHANGED suggestions
         ELSE /\ suggestions' = found
              /\ dvpc' = "deliver"
              /\ UNCHANGED runStatus
    /\ UNCHANGED <<fixCount, fixBranch, branchName, applicable,
                   branchesCreated, headBranch, commitLog, pushLog,
                   pullRequests, notDelivery>>

\* lines 232-245: no improvement and no syntax fix
ReturnNoImprovements ==
    /\ dvpc = "deliver"
    /\ suggestions = 0
    /\ ~(fixBranch # Null /\ fixCount > 0)
    /\ Returned("no_improvements")
    /\ UNCHANGED <<fixCount, fixBranch, branchName, suggestions, applicable,
                   branchesCreated, headBranch, commitLog, pushLog,
                   pullRequests, notDelivery>>

\* lines 186-190: no improvement, the branch of the syntax fixes is pushed
PushSyntaxFixes ==
    /\ dvpc = "deliver"
    /\ suggestions = 0
    /\ fixBranch # Null /\ fixCount > 0
    /\ \E thrown \in BOOLEAN :
         IF thrown
         THEN Failed /\ UNCHANGED pushLog
         ELSE /\ pushLog' = Append(pushLog,
                    [branch |-> fixBranch,
                     commits |-> CommitsOn(commitLog, fixBranch)])
              /\ dvpc' = "syntaxpr"
              /\ UNCHANGED runStatus
    /\ UNCHANGED <<fixCount, fixBranch, branchName, suggestions, applicable,
                   branchesCreated, headBranch, commitLog, pullRequests,
                   notDelivery>>

\* createPullRequest, then addLabelsToPR and commentOnPR
Opened(branch, thrower, result) ==
    IF thrower = "createPullRequest"
    THEN Failed /\ UNCHANGED pullRequests
    ELSE /\ pullRequests' = Append(pullRequests,
                [branch |-> branch,
                 commits |-> CommitsOn(commitLog, branch)])
         /\ IF thrower = "none" THEN Returned(result) ELSE Failed

\* lines 193-230: the pull request of the syntax fixes
OpenSyntaxFixPR ==
    /\ dvpc = "syntaxpr"
    /\ \E thrower \in {"createPullRequest", "commentOnPR", "none"} :
         Opened(fixBranch, thrower, "syntax_fixes_only")
    /\ UNCHANGED <<fixCount, fixBranch, branchName, suggestions, applicable,
                   branchesCreated, headBranch, commitLog, pushLog,
                   notDelivery>>

\* steps 9 and 10 (lines 249-299): the branch of the syntax fixes or a new
\* one, then the changes that could be generated; without any the run
\* returns no_changes
ApplyImprovements ==
    /\ dvpc = "deliver"
    /\ suggestions > 0
    /\ \E thrown \in BOOLEAN, generated \in 0..suggestions :
         IF thrown /\ fixBranch = Null
         THEN /\ Failed
              /\ UNCHANGED <<branchName, applicable, branchesCreated,
                             headBranch>>
         ELSE /\ branchName' =
                    branchNameFor(fixBranch, FreshBranch(branchesCreated))
              /\ branchesCreated' = branchesCreated \cup {branchName'}
              /\ headBranch' = branchName'
              /\ applicable' = generated
              /\ IF generated = 0
                 THEN Returned("no_changes")
                 ELSE dvpc' = "commit" /\ UNCHANGED runStatus
    /\ UNCHANGED <<fixCount, fixBranch, suggestions, commitLog, pushLog,
                   pullRequests, notDelivery>>

\* steps 11 and 12 (lines 302-305): applyChanges and commitChanges
CommitImprovements ==
    /\ dvpc = "commit"
    /\ \E thrown \in BOOLEAN :
         IF thrown
         THEN Failed /\ UNCHANGED commitLog
         ELSE /\ commitLog' = Append(commitLog,
                    [branch |-> headBranch, kind |-> "improvements"])
              /\ dvpc' = "push"
              /\ UNCHANGED runStatus
    /\ UNCHANGED <<fixCount, fixBranch, branchName, suggestions, applicable,
                   branchesCreated, headBranch, pushLog, pullRequests,
                   notDelivery>>

\* step 13 (line 308): pushBranch(tempRepoPath, branchName, token)
PushBranch ==
    /\ dvpc = "push"
    /\ \E thrown \in BOOLEAN :
         IF thrown
         THEN Failed /\ UNCHANGED pushLog
         ELSE /\ pushLog' = Append(pushLog,
                    [branch |-> branchName,
                     commits |-> CommitsOn(commitLog, branchName)])
              /\ dvpc' = "pr"
              /\ UNCHANGED runStatus
    /\ UNCHANGED <<fixCount, fixBranch, branchName, suggestions, applicable,
                   branchesCreated, headBranch, commitLog, pullRequests,
                   notDelivery>>

\* steps 14 to 17 (lines 311-358): the pull request of the improvements
OpenPullRequest ==
    /\ dvpc = "pr"
    /\ \E thrower \in {"createPullRequest", "commentOnPR", "none"} :
         Opened(branchName, thrower, "success")
    /\ UNCHANGED <<fixCount, fixBranch, branchName, suggestions, applicable,
                   branchesCreated, headBranch, commitLog, pushLog,
                   notDelivery>>

NextDelivery ==
    \/ CommitSyntaxFixes
    \/ AnalyseCode
    \/ ReturnNoImprovements
    \/ PushSyntaxFixes
    \/ OpenSyntaxFixPR
    \/ ApplyImprovements
    \/ CommitImprovements
    \/ PushBranch
    \/ OpenPullRequest

SpecDelivery == InitDelivery /\ [][NextDelivery]_vars

----------------------------------------------------------------------------
(* Claims about the delivery                                               *)

\* C27: in every run in which syntax fixes were committed on a branch, a
\* run that returns normally has pushed that branch and opened a pull
\* request that contains the fixes; no normal return discards committed
\* syntax fixes, also not the return taken when the AI suggested
\* improvements and none could be applied.
C27_FixesDelivered ==
    /\ dvpc = "ended" /\ runStatus # "error"
    /\ "syntax" \in CommitsOn(commitLog, fixBranch)
    => /\ \E i \in 1..Len(pushLog) :
            pushLog[i].branch = fixBranch /\ "syntax" \in pushLog[i].commits
       /\ \E i \in 1..Len(pullRequests) :
            /\ pullRequests[i].branch = fixBranch
            /\ "syntax" \in pullRequests[i].commits

\* C28: in every run a pull request is created at most once, and only
\* after pushBranch succeeded for the same branch, which happens only after
\* at least one commit was made on that branch; and at most one branch is
\* created per run, the branch of the syntax fixes being the one the
\* improvements are committed on.
C28_OnePullRequest ==
    /\ Len(pullRequests) <= 1
    /\ \A i \in 1..Len(pullRequests) :
        \E k \in 1..Len(pushLog) : pushLog[k].branch = pullRequests[i].branch
    /\ \A k \in 1..Len(pushLog) :
        /\ pushLog[k].commits # {}
        /\ pushLog[k].branch \in branchesCreated
    /\ Cardinality(branchesCreated) <= 1
    /\ \A i \in 1..Len(commitLog) :
        /\ commitLog[i].branch \in branchesCreated
        /\ branchName # Null => commitLog[i].branch = branchName

\* a run with syntax fixes and improvements has returned success: one
\* branch, with both commits, pushed once, and one pull request
C28_Witness ==
    /\ dvpc = "ended" /\ runStatus = "success"
    /\ fixBranch # Null /\ branchName = fixBranch
    /\ Len(pullRequests) = 1 /\ Len(pushLog) = 1
    /\ pullRequests[1].commits = {"syntax", "improvements"}
    /\ branchesCreated = {fixBranch}

====
